---------------------------- MODULE Spec2Model ----------------------------
(***************************************************************************)
(* Model of the secure scan execution engine of parrot_mcp_server:         *)
(*   - mcp_server/tools/nmap_scan.py : target validation, argument         *)
(*     sanitisation, command assembly, process execution                  *)
(*   - mcp_server/db/models.py       : ScanResult and update_status        *)
(*   - mcp_server/app.py             : create_scan, cancel_scan            *)
(*   - mcp_server/worker.py          : execute_scan_task, retry sweep      *)
(*                                                                         *)
(* Text is modelled as a sequence of one-character strings, so that the    *)
(* regular-expression searches, str.split, str.strip and the address       *)
(* parser act on characters as the Python code does.  Python's None is     *)
(* the value None for scalar fields and NoneStr for text fields.           *)
(***************************************************************************)
EXTENDS Integers, Sequences, FiniteSets, TLC

VARIABLES
    scans,      \* the scan_results table: id -> committed row
    queue,      \* broker messages not yet acknowledged (execute_scan_task jobs)
    revoked,    \* task ids revoked through celery_app.control.revoke
    runs,       \* the execute_scan_task invocations in progress in the pool
    procs,      \* every external process spawned, alive or exited
    nextTask,   \* source of fresh task ids (apply_async)
    clock,      \* datetime.utcnow()
    creating,   \* create_scan requests between their first and last commit
    sweep,      \* retry_failed_scans_task between its enqueues and its commit
    task_app,   \* whether DatabaseTask.db has attached _app to the task object
    celery_db,  \* whether celery_app carries the db attribute the sweep reads
    prepIn,     \* input of a stand-alone validate_and_prepare_scan call
    prepOut,    \* its result
    response,   \* the answer to the last cancel_scan request
    xmlIn,      \* input of a stand-alone parse_nmap_xml call
    xmlOut,     \* its result
    stored,     \* the result columns of a record whose run is storing its result
    logfiles,   \* the log files on disk: inode -> lines
    logpath,    \* the inode the log file's path names, if any
    follower,   \* the LogFollower: file_handle, inode, read position
    returned,   \* the lines read_new_lines has returned, in order
    appended    \* the lines written to the log since the follower was opened

vars == <<scans, queue, revoked, runs, procs, nextTask, clock, creating, sweep,
          task_app, celery_db, prepIn, prepOut, response, xmlIn, xmlOut, stored,
          logfiles, logpath, follower, returned, appended>>

\* the state of the log streaming script
logVars == <<logfiles, logpath, follower, returned, appended>>

None == "None"
NoneStr == <<"<None>">>

(***************************************************************************)
(* Text helpers                                                            *)
(***************************************************************************)

\* Python truthiness of an Optional[str]
Truthy(s) == s # NoneStr /\ s # <<>>

\* str.isspace() / the regex class \s, on the characters the model uses
Whitespace == {" ", "\t", "\n", "\r", "\f"}

AsciiDigits == {"0", "1", "2", "3", "4", "5", "6", "7", "8", "9"}

\* pattern p occurs in s starting at position i
MatchAt(p, s, i) ==
    /\ i >= 1
    /\ i + Len(p) - 1 <= Len(s)
    /\ \A k \in 1..Len(p) : s[i + k - 1] = p[k]

\* re.search of a literal pattern
SearchLiteral(p, s) == \E i \in 1..Len(s) : MatchAt(p, s, i)

\* re.search of a one-character class
SearchClass(class, s) == \E i \in 1..Len(s) : s[i] \in class

\* re.search of  lit\s*/  (a literal, any run of whitespace, a slash)
SearchLitSpaceSlash(lit, s) ==
    \E i \in 1..Len(s) :
        /\ MatchAt(lit, s, i)
        /\ \E j \in (i + Len(lit))..Len(s) :
              /\ s[j] = "/"
              /\ \A k \in (i + Len(lit))..(j - 1) : s[k] \in Whitespace

\* re.search of  a.*b  ('.' matches every character but a newline)
SearchLitAnyLit(a, b, s) ==
    \E i \in 1..Len(s) :
        /\ MatchAt(a, s, i)
        /\ \E j \in (i + Len(a))..Len(s) :
              /\ MatchAt(b, s, j)
              /\ \A k \in (i + Len(a))..(j - 1) : s[k] # "\n"

RECURSIVE SplitWs(_, _, _)
\* str.split(): the maximal runs of non-whitespace characters, in order.
\* cur is the token being read, acc the tokens read so far.
SplitWs(s, cur, acc) ==
    IF s = <<>> THEN (IF cur = <<>> THEN acc ELSE Append(acc, cur))
    ELSE IF Head(s) \in Whitespace
         THEN SplitWs(Tail(s), <<>>, IF cur = <<>> THEN acc ELSE Append(acc, cur))
         ELSE SplitWs(Tail(s), Append(cur, Head(s)), acc)

Split(s) == SplitWs(s, <<>>, <<>>)

RECURSIVE LStrip(_)
LStrip(s) == IF s # <<>> /\ Head(s) \in Whitespace THEN LStrip(Tail(s)) ELSE s

RECURSIVE RStrip(_)
RStrip(s) ==
    IF s # <<>> /\ s[Len(s)] \in Whitespace THEN RStrip(SubSeq(s, 1, Len(s) - 1)) ELSE s

\* str.strip()
Strip(s) == RStrip(LStrip(s))

RECURSIVE SplitOn(_, _, _, _)
\* str.split(sep) for a one-character separator: every field, empty ones too
SplitOn(s, sep, cur, acc) ==
    IF s = <<>> THEN Append(acc, cur)
    ELSE IF Head(s) = sep
         THEN SplitOn(Tail(s), sep, <<>>, Append(acc, cur))
         ELSE SplitOn(Tail(s), sep, Append(cur, Head(s)), acc)

SplitChar(s, sep) == SplitOn(s, sep, <<>>, <<>>)

RECURSIVE Concat(_)
\* the concatenation of a sequence of texts
Concat(ss) == IF ss = <<>> THEN <<>> ELSE Head(ss) \o Concat(Tail(ss))

(***************************************************************************)
(* NmapValidator.sanitize_custom_args                                      *)
(***************************************************************************)

\* the literals of forbidden_patterns, as texts
LitScript     == <<"-", "-", "s", "c", "r", "i", "p", "t">>
LitDotDotSl   == <<".", ".", "/">>
LitDatadir    == <<"-", "-", "d", "a", "t", "a", "d", "i", "r">>
LitServicedb  == <<"-", "-", "s", "e", "r", "v", "i", "c", "e", "d", "b">>
LitON         == <<"-", "o", "N">>
LitOG         == <<"-", "o", "G">>
LitOX         == <<"-", "o", "X">>
LitResume     == <<"-", "-", "r", "e", "s", "u", "m", "e">>
LitStylesheet == <<"-", "-", "s", "t", "y", "l", "e", "s", "h", "e", "e", "t">>

\* the backquote character (the lexer of the tools rejects it in a literal)
Backquote == "BACKQUOTE"

ShellMeta      == {"$", Backquote}
ShellOperators == {";", "&", "|", "<", ">"}

\* forbidden_patterns, in the order of the list: the source text of the pattern
\* (as it appears in the error message) and whether re.search finds it
forbidden_patterns(args) == <<
    [pattern |-> "--script.*\\.\\./", found |-> SearchLitAnyLit(LitScript, LitDotDotSl, args)],
    [pattern |-> "--datadir",         found |-> SearchLiteral(LitDatadir, args)],
    [pattern |-> "--servicedb",       found |-> SearchLiteral(LitServicedb, args)],
    [pattern |-> "-oN\\s*/",          found |-> SearchLitSpaceSlash(LitON, args)],
    [pattern |-> "-oG\\s*/",          found |-> SearchLitSpaceSlash(LitOG, args)],
    [pattern |-> "-oX\\s*/",          found |-> SearchLitSpaceSlash(LitOX, args)],
    [pattern |-> "--resume",          found |-> SearchLiteral(LitResume, args)],
    [pattern |-> "--stylesheet",      found |-> SearchLiteral(LitStylesheet, args)],
    [pattern |-> "[\\$BACKQUOTE]",            found |-> SearchClass(ShellMeta, args)],
    [pattern |-> "[;&|<>]",           found |-> SearchClass(ShellOperators, args)] >>

\* a sanitiser that forgets the shell-operator class
sanitize_custom_args_NoOperators(args) ==
    LET pats == SubSeq(forbidden_patterns(args), 1, 9)
        hits == {i \in 1..Len(pats) : pats[i].found}
    IN  IF hits # {}
        THEN [valid |-> FALSE,
              error |-> "Forbidden argument pattern detected: "
                        \o pats[CHOOSE i \in hits : \A j \in hits : i <= j].pattern,
              safe_args |-> <<>>]
        ELSE [valid |-> TRUE, error |-> None, safe_args |-> Split(args)]

\* a sanitiser that splits the text without searching it
sanitize_custom_args_Unchecked(args) ==
    [valid |-> TRUE, error |-> None, safe_args |-> Split(args)]

\* (is_valid, error_message, sanitized_args_list): the first pattern of the
\* list that is found rejects the text; otherwise the text is split on
\* whitespace and every token is kept (both branches of the loop append).
sanitize_custom_args(args) ==
    LET pats == forbidden_patterns(args)
        hits == {i \in 1..Len(pats) : pats[i].found}
    IN  IF hits # {}
        THEN [valid |-> FALSE,
              error |-> "Forbidden argument pattern detected: "
                        \o pats[CHOOSE i \in hits : \A j \in hits : i <= j].pattern,
              safe_args |-> <<>>]
        ELSE [valid |-> TRUE, error |-> None, safe_args |-> Split(args)]

(***************************************************************************)
(* ipaddress.ip_network(target, strict=False), as validate_target uses it. *)
(* An address is its sequence of bits, most significant first (32 for      *)
(* IPv4, 128 for IPv6), so that no address exceeds the integer range of    *)
(* the checker.  The scope id ("%zone") of an IPv6 address is split off    *)
(* and, with strict=False, not kept in the network.                        *)
(***************************************************************************)

DigitVal(c) ==
    CASE c = "0" -> 0 [] c = "1" -> 1 [] c = "2" -> 2 [] c = "3" -> 3 [] c = "4" -> 4
      [] c = "5" -> 5 [] c = "6" -> 6 [] c = "7" -> 7 [] c = "8" -> 8 [] c = "9" -> 9

HexLetters == {"a", "b", "c", "d", "e", "f", "A", "B", "C", "D", "E", "F"}
HexDigits == AsciiDigits \cup HexLetters

HexVal(c) ==
    CASE c \in AsciiDigits -> DigitVal(c)
      [] c \in {"a", "A"} -> 10 [] c \in {"b", "B"} -> 11 [] c \in {"c", "C"} -> 12
      [] c \in {"d", "D"} -> 13 [] c \in {"e", "E"} -> 14 [] c \in {"f", "F"} -> 15

\* str.isascii() and str.isdigit()
IsDigits(s) == s # <<>> /\ \A i \in 1..Len(s) : s[i] \in AsciiDigits

RECURSIVE IntOf(_, _)
\* int(text, base) of a text of digits of that base
IntOf(s, base) ==
    IF s = <<>> THEN 0
    ELSE base * IntOf(SubSeq(s, 1, Len(s) - 1), base) + HexVal(s[Len(s)])

RECURSIVE ToBits(_, _)
\* the w low bits of n, most significant first
ToBits(n, w) == IF w = 0 THEN <<>> ELSE Append(ToBits(n \div 2, w - 1), n % 2)

Repeat(b, n) == [i \in 1..n |-> b]

\* IPv4Address._parse_octet; -1 stands for the ValueError
parse_octet(s) ==
    IF \/ ~IsDigits(s)
       \/ Len(s) > 3
       \/ (Len(s) > 1 /\ s[1] = "0")
    THEN -1
    ELSE IF IntOf(s, 10) > 255 THEN -1 ELSE IntOf(s, 10)

\* IPv4Address._ip_int_from_string
ipv4_from_string(s) ==
    LET octets == SplitChar(s, ".")
    IN  IF Len(octets) # 4 \/ \E i \in 1..Len(octets) : parse_octet(octets[i]) = -1
        THEN [ok |-> FALSE, bits |-> <<>>]
        ELSE [ok |-> TRUE,
              bits |-> Concat([i \in 1..4 |-> ToBits(parse_octet(octets[i]), 8)])]

\* IPv6Address._parse_hextet; -1 stands for the ValueError
parse_hextet(s) ==
    IF s = <<>> \/ Len(s) > 4 \/ \E i \in 1..Len(s) : s[i] \notin HexDigits
    THEN -1
    ELSE IntOf(s, 16)

\* IPv6Address._ip_int_from_string, after the embedded IPv4 suffix (if any)
\* has been replaced by its two hextets: parts holds texts, and the two
\* hextets of an IPv4 suffix as the bit sequences v4hi, v4lo
ipv6_from_parts(parts, hasV4, v4hi, v4lo) ==
    LET n == Len(parts) + (IF hasV4 THEN 2 ELSE 0)
        \* the empty inner parts ("::")
        skips == {i \in 2..(n - 1) : i <= Len(parts) /\ parts[i] = <<>>}
        firstEmpty == parts[1] = <<>>
        lastEmpty == ~hasV4 /\ parts[Len(parts)] = <<>>
        Hextet(i) == IF i <= Len(parts) THEN parts[i] ELSE <<"0">>
        Bits(i) ==
            IF i <= Len(parts) THEN ToBits(parse_hextet(parts[i]), 16)
            ELSE IF i = Len(parts) + 1 THEN v4hi ELSE v4lo
        Bad(idx) == \E i \in idx : i <= Len(parts) /\ parse_hextet(parts[i]) = -1
        fail == [ok |-> FALSE, bits |-> <<>>]
    IN  IF n > 9 \/ Cardinality(skips) > 1 THEN fail
        ELSE IF skips # {}
        THEN LET skip == CHOOSE i \in skips : TRUE
                 hi0 == skip - 1
                 lo0 == n - skip
                 hi == IF firstEmpty THEN hi0 - 1 ELSE hi0
                 lo == IF lastEmpty THEN lo0 - 1 ELSE lo0
                 skipped == 8 - (hi + lo)
             IN  IF (firstEmpty /\ hi # 0) \/ (lastEmpty /\ lo # 0) \/ skipped < 1
                 THEN fail
                 ELSE IF Bad(1..hi) \/ Bad((n - lo + 1)..n) THEN fail
                 ELSE [ok |-> TRUE,
                       bits |-> Concat([i \in 1..hi |-> Bits(i)])
                                \o Repeat(0, 16 * skipped)
                                \o Concat([i \in 1..lo |-> Bits(n - lo + i)])]
        ELSE IF n # 8 \/ firstEmpty \/ lastEmpty \/ Bad(1..n) THEN fail
        ELSE [ok |-> TRUE, bits |-> Concat([i \in 1..8 |-> Bits(i)])]

\* IPv6Address._ip_int_from_string
\* an embedded IPv4 suffix v4 is replaced by its two hextets
ipv6_with_ipv4(parts, v4) ==
    IF ~v4.ok THEN [ok |-> FALSE, bits |-> <<>>]
    ELSE ipv6_from_parts(SubSeq(parts, 1, Len(parts) - 1), TRUE,
                         SubSeq(v4.bits, 1, 16), SubSeq(v4.bits, 17, 32))

\* IPv6Address._ip_int_from_string on the parts between the colons; a last
\* part with a dot is an IPv4 address
ipv6_from_split(parts) ==
    IF Len(parts) < 3 THEN [ok |-> FALSE, bits |-> <<>>]
    ELSE IF \E i \in 1..Len(parts[Len(parts)]) : parts[Len(parts)][i] = "."
    THEN ipv6_with_ipv4(parts, ipv4_from_string(parts[Len(parts)]))
    ELSE ipv6_from_parts(parts, FALSE, <<>>, <<>>)

\* IPv6Address._ip_int_from_string
ipv6_from_string(s) ==
    IF s = <<>> THEN [ok |-> FALSE, bits |-> <<>>]
    ELSE ipv6_from_split(SplitChar(s, ":"))

\* IPv6Address._split_scope_id: the text before the first "%"; a "%"
\* followed by nothing, or by a text with another "%", is the ValueError
split_scope_id(s) ==
    LET at == {i \in 1..Len(s) : s[i] = "%"}
        sep == CHOOSE i \in at : \A j \in at : i <= j
    IN  IF at = {} THEN [ok |-> TRUE, addr |-> s]
        ELSE IF sep = Len(s) \/ Cardinality(at) > 1 THEN [ok |-> FALSE, addr |-> <<>>]
        ELSE [ok |-> TRUE, addr |-> SubSeq(s, 1, sep - 1)]

\* IPv6Address.__init__ after the scope id has been split off
ipv6_address_of(split) ==
    IF ~split.ok THEN [ok |-> FALSE, bits |-> <<>>] ELSE ipv6_from_string(split.addr)

\* IPv6Address(address) of a text without "/"
IPv6Address(s) == ipv6_address_of(split_scope_id(s))

RECURSIVE LStripZeros(_)
\* the digits of a decimal text without its leading zeroes (int() ignores them)
LStripZeros(s) == IF Len(s) > 1 /\ Head(s) = "0" THEN LStripZeros(Tail(s)) ELSE s

\* _prefix_from_prefix_string; -1 stands for the NetmaskValueError
prefix_from_prefix_string(s, max_prefixlen) ==
    IF ~IsDigits(s) \/ Len(LStripZeros(s)) > 3 THEN -1
    ELSE IF IntOf(LStripZeros(s), 10) > max_prefixlen THEN -1
    ELSE IntOf(LStripZeros(s), 10)

\* _prefix_from_ip_int on bits: a netmask is ones followed by zeroes
prefix_from_ip_bits(bits) ==
    LET ks == {k \in 0..Len(bits) : bits = Repeat(1, k) \o Repeat(0, Len(bits) - k)}
    IN  IF ks = {} THEN -1 ELSE CHOOSE k \in ks : TRUE

\* the first of two results that is not the error value -1
FirstValid(first, second) == IF first # -1 THEN first ELSE second

\* _prefix_from_ip_string on the parsed mask: a netmask, else a hostmask
prefix_from_ip(ip) ==
    IF ~ip.ok THEN -1
    ELSE FirstValid(prefix_from_ip_bits(ip.bits),
                    prefix_from_ip_bits([i \in 1..Len(ip.bits) |-> 1 - ip.bits[i]]))

\* _prefix_from_ip_string (IPv4 only): a dotted netmask, else a hostmask
prefix_from_ip_string(s) == prefix_from_ip(ipv4_from_string(s))

\* the network address of strict=False: the host bits are cleared
MaskBits(bits, prefixlen) ==
    [i \in 1..Len(bits) |-> IF i <= prefixlen THEN bits[i] ELSE 0]

NoNetwork == [ok |-> FALSE, version |-> 0, bits |-> <<>>, prefixlen |-> 0]

\* the network of a parsed address and prefix length (strict=False)
MakeNetwork(version, addr, plen) ==
    IF ~addr.ok \/ plen = -1 THEN NoNetwork
    ELSE [ok |-> TRUE, version |-> version, bits |-> MaskBits(addr.bits, plen),
          prefixlen |-> plen]

\* IPv4Network on the parts _split_optional_netmask returns
IPv4NetworkOf(ap) ==
    IF Len(ap) > 2 THEN NoNetwork
    ELSE MakeNetwork(4, ipv4_from_string(ap[1]),
                     IF Len(ap) = 1 THEN 32
                     ELSE FirstValid(prefix_from_prefix_string(ap[2], 32),
                                     prefix_from_ip_string(ap[2])))

\* IPv4Network(address, strict=False)
IPv4Network(s) == IPv4NetworkOf(SplitChar(s, "/"))

\* IPv6Network on the parts _split_optional_netmask returns
IPv6NetworkOf(ap) ==
    IF Len(ap) > 2 THEN NoNetwork
    ELSE MakeNetwork(6, IPv6Address(ap[1]),
                     IF Len(ap) = 1 THEN 128
                     ELSE prefix_from_prefix_string(ap[2], 128))

\* IPv6Network(address, strict=False)
IPv6Network(s) == IPv6NetworkOf(SplitChar(s, "/"))

\* the first of two parses that succeeded
FirstOk(first, second) == IF first.ok THEN first ELSE second

\* ipaddress.ip_network: IPv4 is tried first, then IPv6; ~ok is the ValueError
ip_network(s) == FirstOk(IPv4Network(s), IPv6Network(s))

\* network_address and broadcast_address of a network
network_address(net) == [version |-> net.version, bits |-> net.bits]

broadcast_address(net) ==
    [version |-> net.version,
     bits |-> [i \in 1..Len(net.bits) |-> IF i <= net.prefixlen THEN net.bits[i] ELSE 1]]

\* _BaseNetwork.__contains__ for an address: never across versions
Contains(net, a) ==
    /\ net.version = a.version
    /\ MaskBits(a.bits, net.prefixlen) = net.bits

\* _BaseNetwork.overlaps
overlaps(self, other) ==
    \/ Contains(other, network_address(self))
    \/ Contains(other, broadcast_address(self))
    \/ Contains(self, network_address(other))
    \/ Contains(self, broadcast_address(other))

\* num_addresses > limit.  num_addresses is 2^(host bits); beyond 2^30 it
\* exceeds every limit of the program without being computed.
NumAddressesExceeds(net, limit) ==
    LET hostbits == Len(net.bits) - net.prefixlen
    IN  hostbits > 30 \/ 2^hostbits > limit

(***************************************************************************)
(* NmapValidator.validate_target, validate_scan_type                      *)
(***************************************************************************)

MAX_IPV4_HOSTS == 256
MAX_IPV6_HOSTS == 65536

\* the texts of the blacklist: as a string (for the messages) and as text
ForbiddenRangeTexts == <<
    [name |-> "127.0.0.0/8",    text |-> <<"1", "2", "7", ".", "0", ".", "0", ".", "0", "/", "8">>],
    [name |-> "169.254.0.0/16", text |-> <<"1", "6", "9", ".", "2", "5", "4", ".", "0", ".", "0", "/", "1", "6">>],
    [name |-> "224.0.0.0/4",    text |-> <<"2", "2", "4", ".", "0", ".", "0", ".", "0", "/", "4">>],
    [name |-> "240.0.0.0/4",    text |-> <<"2", "4", "0", ".", "0", ".", "0", ".", "0", "/", "4">>] >>

\* the blacklist, built as the class body builds it: by parsing the texts
FORBIDDEN_RANGES ==
    [i \in 1..Len(ForbiddenRangeTexts) |->
        [name |-> ForbiddenRangeTexts[i].name,
         net |-> ip_network(ForbiddenRangeTexts[i].text)]]

\* the entries of a blacklist that network overlaps
ForbiddenHits(network, ranges) ==
    {i \in 1..Len(ranges) : overlaps(network, ranges[i].net)}

\* validate_target without the size limits of lines 79-84
check_network_NoSizeLimit(network, hits) ==
    IF hits # {}
    THEN [valid |-> FALSE,
          error |-> "overlaps forbidden range "
                    \o ForbiddenRangeTexts[CHOOSE i \in hits : \A j \in hits : i <= j].name]
    ELSE [valid |-> TRUE, error |-> None]

\* (is_valid, error_message).  The target is stripped, parsed with
\* strict=False, checked against the blacklist in list order, then against
\* the size limit of its address family.
\* lines 74-92 of validate_target, on the parsed network and the blacklist
\* entries it overlaps: the first entry rejects it, then the size limit
check_network(network, hits) ==
    IF hits # {}
    THEN [valid |-> FALSE,
          error |-> "overlaps forbidden range "
                    \o ForbiddenRangeTexts[CHOOSE i \in hits : \A j \in hits : i <= j].name]
    ELSE IF network.version = 4 /\ NumAddressesExceeds(network, MAX_IPV4_HOSTS)
    THEN [valid |-> FALSE, error |-> "Network too large"]
    ELSE IF network.version = 6 /\ NumAddressesExceeds(network, MAX_IPV6_HOSTS)
    THEN [valid |-> FALSE, error |-> "Network too large"]
    ELSE [valid |-> TRUE, error |-> None]

\* validate_target after the parse of line 71
validate_network(network) ==
    IF ~network.ok
    THEN [valid |-> FALSE, error |-> "Invalid IP/CIDR format"]
    ELSE check_network(network, ForbiddenHits(network, FORBIDDEN_RANGES))

validate_target(target) == validate_network(ip_network(Strip(target)))

allowed_types == <<"default", "quick", "full", "stealth", "os", "vuln", "custom">>

\* a validator that accepts every profile name
validate_scan_type_AnyName(scan_type) == [valid |-> TRUE, error |-> None]

validate_scan_type(scan_type) ==
    IF scan_type \notin {allowed_types[i] : i \in 1..Len(allowed_types)}
    THEN [valid |-> FALSE, error |-> "Invalid scan type"]
    ELSE [valid |-> TRUE, error |-> None]

(***************************************************************************)
(* NmapScanner: profiles and command assembly                              *)
(***************************************************************************)

nmap_path == <<"/", "u", "s", "r", "/", "b", "i", "n", "/", "n", "m", "a", "p">>

\* SCAN_PROFILES, the dict as a function on its keys
SCAN_PROFILES ==
    [k \in {"quick", "default", "full", "stealth", "os", "vuln"} |->
        CASE k = "quick"   -> <<<<"-", "T", "4">>, <<"-", "F">>>>
          [] k = "default" -> <<<<"-", "T", "4">>, <<"-", "P", "n">>>>
          [] k = "full"    -> <<<<"-", "s", "S">>, <<"-", "s", "V">>, <<"-", "T", "4">>, <<"-", "p", "-">>>>
          [] k = "stealth" -> <<<<"-", "s", "S">>, <<"-", "T", "2">>, <<"-", "f">>>>
          [] k = "os"      -> <<<<"-", "O">>, <<"-", "-", "o", "s", "s", "c", "a", "n", "-", "g", "u", "e", "s", "s">>>>
          [] k = "vuln"    -> <<<<"-", "s", "V">>, <<"-", "-", "s", "c", "r", "i", "p", "t", "=", "v", "u", "l", "n">>, <<"-", "T", "4">>>>]

\* a lookup without the default: no arguments for a name not in the table
ProfileArgs_NoFallback(scan_type) ==
    IF scan_type \in DOMAIN SCAN_PROFILES THEN SCAN_PROFILES[scan_type]
    ELSE <<>>

\* SCAN_PROFILES.get(scan_type, SCAN_PROFILES["default"])
ProfileArgs(scan_type) ==
    IF scan_type \in DOMAIN SCAN_PROFILES THEN SCAN_PROFILES[scan_type]
    ELSE SCAN_PROFILES["default"]

NoCommand == <<>>

\* the version probe of NmapScanner.__init__
VersionCommand == <<nmap_path, <<"-", "-", "v", "e", "r", "s", "i", "o", "n">>>>

\* (is_valid, error_message, command_list); the command of a rejected
\* request is None, modelled as the empty list (no command is empty).
\* calls lists the stages the call went through, in order: the validator
\* methods it called and "assemble" for lines 241-245.
\* an assembly that puts the target before the output mode
assemble_TargetFirst(args, target, calls) ==
    [valid |-> TRUE, error |-> None,
     command |-> <<nmap_path>> \o args \o <<target, LitOX, <<"-">>>>,
     calls |-> Append(calls, "assemble")]

\* lines 241-248: the command of an accepted request
assemble(args, target, calls) ==
    [valid |-> TRUE, error |-> None,
     command |-> <<nmap_path>> \o args \o <<LitOX, <<"-">>, target>>,
     calls |-> Append(calls, "assemble")]

\* a rejected request
rejected(error, calls) ==
    [valid |-> FALSE, error |-> error, command |-> NoCommand, calls |-> calls]

\* lines 234-237, on the result sa of sanitize_custom_args
prepare_custom(target, sa, calls) ==
    IF ~sa.valid THEN rejected(sa.error, calls)
    ELSE assemble(sa.safe_args, target, calls)

\* lines 224-239 with the custom arguments used for every profile
prepare_args_CustomForAll(target, scan_type, custom_args, vs) ==
    IF ~vs.valid
    THEN rejected(vs.error, <<"validate_target", "validate_scan_type">>)
    ELSE IF Truthy(custom_args)
    THEN prepare_custom(target, sanitize_custom_args(custom_args),
                        <<"validate_target", "validate_scan_type",
                          "sanitize_custom_args">>)
    ELSE assemble(ProfileArgs(scan_type), target,
                  <<"validate_target", "validate_scan_type">>)

\* lines 224-239, on the result vs of validate_scan_type
prepare_args(target, scan_type, custom_args, vs) ==
    IF ~vs.valid
    THEN rejected(vs.error, <<"validate_target", "validate_scan_type">>)
    ELSE IF scan_type = "custom" /\ Truthy(custom_args)
    THEN prepare_custom(target, sanitize_custom_args(custom_args),
                        <<"validate_target", "validate_scan_type",
                          "sanitize_custom_args">>)
    ELSE assemble(ProfileArgs(scan_type), target,
                  <<"validate_target", "validate_scan_type">>)

\* lines 218-248, on the result vt of validate_target
prepare_scan(target, scan_type, custom_args, vt) ==
    IF ~vt.valid THEN rejected(vt.error, <<"validate_target">>)
    ELSE prepare_args(target, scan_type, custom_args, validate_scan_type(scan_type))

validate_and_prepare_scan(target, scan_type, custom_args) ==
    prepare_scan(target, scan_type, custom_args, validate_target(target))

(***************************************************************************)
(* Inputs: the texts requests are drawn from                               *)
(***************************************************************************)

\* how many fragments a custom-argument text is built from
MaxFrags == 2

\* the building blocks of custom-argument texts: flags, separators, a file
\* name, every shell metacharacter, and the literals the denylist names
ArgFragments == <<
    <<"-", "T", "4">>, <<" ">>, <<"-", "o", "N">>, <<"-", "o", "X">>, <<"-", "o", "G">>, <<"-", "o", "A">>, <<"/">>, <<"o", "u", "t">>,
    <<";">>, <<"&">>, <<"|">>, <<"<">>, <<">">>, <<"$">>, <<Backquote>>,
    <<"-", "-", "s", "c", "r", "i", "p", "t", "=", "x">>, <<".", ".", "/">>, <<"-", "-", "d", "a", "t", "a", "d", "i", "r">>, <<"\n">> >>

\* every concatenation of at most MaxFrags fragments, and the absent text
ArgTexts ==
    {NoneStr} \cup
    UNION {{Concat([i \in 1..n |-> ArgFragments[f[i]]]) :
               f \in [1..n -> 1..Len(ArgFragments)]} : n \in 0..MaxFrags}

\* a few argument texts, for the requests whose profile is not custom
ArgTextsSmall == {NoneStr, <<>>, <<"-", "T", "4", " ", "-", "F">>, <<"-", "T", "4", ";", " ", "r", "m", " ", "-", "r", "f", " ", "/">>, <<"-", "o", "N", " ", "o", "u", "t">>}

DigitChar(d) == <<"0", "1", "2", "3", "4", "5", "6", "7", "8", "9">>[d + 1]

RECURSIVE DecText(_)
\* str(n) for a natural number
DecText(n) == IF n < 10 THEN <<DigitChar(n)>> ELSE Append(DecText(n \div 10), DigitChar(n % 10))

Dotted(a, b, c, d) ==
    DecText(a) \o <<".">> \o DecText(b) \o <<".">> \o DecText(c) \o <<".">> \o DecText(d)

\* IPv4 targets: addresses around every boundary of the blacklist, alone
\* and with prefix lengths around the size limit and the blacklist widths
V4FirstOctets == {0, 10, 126, 127, 128, 169, 192, 223, 224, 239, 240, 255}
V4Prefixes == {0, 1, 3, 4, 7, 8, 15, 16, 23, 24, 25, 32}

V4Targets ==
    {Dotted(a, b, 0, d) : a \in V4FirstOctets, b \in {0, 254}, d \in {0, 1}}
    \cup {Dotted(a, b, 0, d) \o <<"/">> \o DecText(p) :
             a \in V4FirstOctets, b \in {0, 254}, d \in {0, 1}, p \in V4Prefixes}

\* IPv6 targets: loopback, link-local, multicast, mapped IPv4, documentation
\* ranges around the size limit
V6Targets == {
    <<":", ":", "1">>, <<":", ":", "1", "/", "1", "2", "8">>, <<"f", "e", "8", "0", ":", ":", "1">>, <<"f", "e", "8", "0", ":", ":", "/", "1", "0">>, <<"f", "e", "8", "0", ":", ":", "/", "6", "4">>, <<"f", "f", "0", "2", ":", ":", "1">>, <<"f", "f", "0", "0", ":", ":", "/", "8">>,
    <<":", ":", "f", "f", "f", "f", ":", "1", "2", "7", ".", "0", ".", "0", ".", "1">>, <<":", ":", "f", "f", "f", "f", ":", "1", "0", ".", "0", ".", "0", ".", "1">>, <<"2", "0", "0", "1", ":", "d", "b", "8", ":", ":", "1">>, <<"2", "0", "0", "1", ":", "d", "b", "8", ":", ":", "/", "1", "1", "2">>,
    <<"2", "0", "0", "1", ":", "d", "b", "8", ":", ":", "/", "1", "1", "1">>, <<"2", "0", "0", "1", ":", "d", "b", "8", ":", ":", "/", "3", "2">>, <<":", ":", "/", "0">>, <<"f", "c", "0", "0", ":", ":", "/", "7">> }

\* malformed and padded targets
OddTargets == {
    <<>>, <<"1", "0", ".", "0", ".", "0", ".", "1", ";", "l", "s">>, <<"1", ".", "2", ".", "3">>, <<"2", "5", "6", ".", "0", ".", "0", ".", "1">>, <<"1", "0", ".", "0", ".", "0", ".", "1", "/", "3", "3">>, <<"1", "0", ".", "0", ".", "0", ".", "1", "/">>,
    <<"1", "0", ".", "0", ".", "0", ".", "0", "/", "2", "5", "5", ".", "2", "5", "5", ".", "2", "5", "5", ".", "0">>, <<"1", "0", ".", "0", ".", "0", ".", "0", "/", "2", "5", "5", ".", "0", ".", "0", ".", "0">>, <<"1", "2", "7", ".", "0", ".", "0", ".", "0", "/", "0", ".", "2", "5", "5", ".", "2", "5", "5", ".", "2", "5", "5">>,
    <<" ", "1", "0", ".", "0", ".", "0", ".", "1", " ">>, <<" ", "1", "2", "7", ".", "0", ".", "0", ".", "1">>, <<"1", "0", ".", "0", ".", "0", ".", "1", " ", "-", "o", "N", " ", "o", "u", "t">>, <<"e", "x", "a", "m", "p", "l", "e", ".", "c", "o", "m">>, <<":", ":", "1", ":", ":">> }

\* the targets of tests/fixtures/mock_targets.py INJECTION_ATTEMPTS
INJECTION_ATTEMPTS == {
    <<"1", "2", "7", ".", "0", ".", "0", ".", "1", ";", " ", "r", "m", " ", "-", "r", "f", " ", "/">>,
    <<"1", "2", "7", ".", "0", ".", "0", ".", "1", " ", "&", "&", " ", "c", "a", "t", " ", "/", "e", "t", "c", "/", "p", "a", "s", "s", "w", "d">>,
    <<"1", "2", "7", ".", "0", ".", "0", ".", "1", " ", "|", "|", " ", "e", "c", "h", "o", " ", "'", "i", "n", "j", "e", "c", "t", "e", "d", "'">>,
    <<"1", "2", "7", ".", "0", ".", "0", ".", "1", " ", "|", " ", "n", "c", " ", "a", "t", "t", "a", "c", "k", "e", "r", ".", "c", "o", "m", " ", "4", "4", "4", "4">>,
    <<"1", "2", "7", ".", "0", ".", "0", ".", "1", Backquote, "w", "h", "o", "a", "m", "i", Backquote>>,
    <<"1", "2", "7", ".", "0", ".", "0", ".", "1", "$", "(", "w", "h", "o", "a", "m", "i", ")">>,
    <<"'", ";", " ", "D", "R", "O", "P", " ", "T", "A", "B", "L", "E", " ", "s", "c", "a", "n", "s", ";", " ", "-", "-">>,
    <<".", ".", "/", ".", ".", "/", ".", ".", "/", "e", "t", "c", "/", "p", "a", "s", "s", "w", "d">>,
    <<".", ".", "\\", ".", ".", "\\", ".", ".", "\\", "w", "i", "n", "d", "o", "w", "s", "\\", "s", "y", "s", "t", "e", "m", "3", "2", "\\", "c", "o", "n", "f", "i", "g", "\\", "s", "a", "m">> }

\* the same patterns after an address that is not blacklisted, and inside
\* the scope id of an IPv6 address
ScopedTargets == {
    <<"1", "9", "2", ".", "1", "6", "8", ".", "1", ".", "5", ";", "i", "d">>,
    <<"1", "9", "2", ".", "1", "6", "8", ".", "1", ".", "5", "&", "&", "i", "d">>,
    <<"1", "9", "2", ".", "1", "6", "8", ".", "1", ".", "5", "|", "i", "d">>,
    <<"1", "9", "2", ".", "1", "6", "8", ".", "1", ".", "5", "$", "(", "i", "d", ")">>,
    <<"1", "9", "2", ".", "1", "6", "8", ".", "1", ".", "5", "/", ".", ".", "/", "2", "4">>,
    <<"2", "0", "0", "1", ":", "d", "b", "8", ":", ":", "1", "%", ";", "i", "d">>,
    <<"2", "0", "0", "1", ":", "d", "b", "8", ":", ":", "1", "%", "a", "&", "&", "i", "d">>,
    <<"2", "0", "0", "1", ":", "d", "b", "8", ":", ":", "1", "%", "a", "|", "|", "i", "d">>,
    <<"2", "0", "0", "1", ":", "d", "b", "8", ":", ":", "1", "%", "a", "|", "i", "d">>,
    <<"2", "0", "0", "1", ":", "d", "b", "8", ":", ":", "1", "%", Backquote, "i", "d", Backquote>>,
    <<"2", "0", "0", "1", ":", "d", "b", "8", ":", ":", "1", "%", "$", "(", "i", "d", ")">>,
    <<"2", "0", "0", "1", ":", "d", "b", "8", ":", ":", "1", "%", ".", ".", "/", "x">>,
    <<"2", "0", "0", "1", ":", "d", "b", "8", ":", ":", "1", "%", ".", ".", "/", "6", "4">>,
    <<"2", "0", "0", "1", ":", "d", "b", "8", ":", ":", "1", "%", "e", "t", "h", "0">>,
    <<"2", "0", "0", "1", ":", "d", "b", "8", ":", ":", "1", "%">>,
    <<":", ":", "1", "%", ";", "i", "d">> }

Targets == V4Targets \cup V6Targets \cup OddTargets \cup INJECTION_ATTEMPTS \cup ScopedTargets

TargetsSmall == {<<"1", "9", "2", ".", "1", "6", "8", ".", "1", ".", "5">>, <<"1", "0", ".", "0", ".", "0", ".", "0", "/", "2", "4">>, <<"1", "2", "7", ".", "0", ".", "0", ".", "1">>}

\* every profile name of the table, and two that are not in it
ScanTypes == {allowed_types[i] : i \in 1..Len(allowed_types)} \cup {"bogus", ""}

\* the requests a stand-alone call is checked on: every target with every
\* profile name, and the custom profile with every argument text
PrepInputs ==
    [target : Targets, scan_type : ScanTypes, custom_args : ArgTextsSmall]
    \cup [target : TargetsSmall, scan_type : {"custom"}, custom_args : ArgTexts]

(***************************************************************************)
(* ScanResult rows (db/models.py)                                          *)
(***************************************************************************)

\* bounds of the lifecycle model
MaxScans == 1        \* records created
MaxTasks == 2        \* task ids issued by apply_async
MaxDeliveries == 2   \* deliveries of one message (at-least-once)
MaxClock == 2        \* distinct instants of datetime.utcnow()
MaxRuns == 2         \* tasks the pool runs at once

\* NULL in the integer columns
NoTask == 0
NoTime == 0
NoDuration == -1

QUEUED == "queued"
RUNNING == "running"
COMPLETED == "completed"
FAILED == "failed"
CANCELLED == "cancelled"

Terminal == {COMPLETED, FAILED, CANCELLED}

\* the values of ScanType
ScanTypeValues == {"default", "quick", "full", "stealth", "os", "vuln", "custom"}

RECURSIVE JsonEscape(_)
\* the body of a JSON string literal (json.dumps of a str, ASCII input)
JsonEscape(s) ==
    IF s = <<>> THEN <<>>
    ELSE (CASE Head(s) = "\"" -> <<"\\", "\"">>
            [] Head(s) = "\\" -> <<"\\", "\\">>
            [] Head(s) = "\n" -> <<"\\", "n">>
            [] Head(s) = "\t" -> <<"\\", "t">>
            [] Head(s) = "\r" -> <<"\\", "r">>
            [] Head(s) = "\f" -> <<"\\", "f">>
            [] OTHER -> <<Head(s)>>) \o JsonEscape(Tail(s))

\* json.dumps(text)
json_dumps(s) == <<"\"">> \o JsonEscape(s) \o <<"\"">>

\* the row create_scan inserts (lines 241-248); the columns with a default
\* take it.  updated_at, priority and user_id are not modelled.
NewScan(target, scan_type, custom_args) ==
    [target |-> target,
     scan_type |-> scan_type,
     scan_args |-> IF Truthy(custom_args) THEN json_dumps(custom_args) ELSE NoneStr,
     status |-> QUEUED,
     task_id |-> NoTask,
     started_at |-> NoTime,
     completed_at |-> NoTime,
     duration_seconds |-> NoDuration,
     error_message |-> None,
     raw_output |-> None,
     parsed_results |-> None]

\* an update_status that stamps started_at on every entry into running
update_status_ResetsStartedAt(row, status, error_message, now) ==
    LET r1 == [row EXCEPT !.status = status]
        r2 == IF status = RUNNING
              THEN [r1 EXCEPT !.started_at = now]
              ELSE IF status \in {COMPLETED, FAILED}
              THEN [r1 EXCEPT !.completed_at = now,
                              !.duration_seconds =
                                  IF row.started_at # NoTime THEN now - row.started_at ELSE @]
              ELSE r1
    IN  IF error_message # None /\ error_message # ""
        THEN [r2 EXCEPT !.error_message = error_message]
        ELSE r2

\* an update_status that leaves duration_seconds as the caller set it
update_status_KeepsDuration(row, status, error_message, now) ==
    LET r1 == [row EXCEPT !.status = status]
        r2 == IF status = RUNNING /\ row.started_at = NoTime
              THEN [r1 EXCEPT !.started_at = now]
              ELSE IF status \in {COMPLETED, FAILED}
              THEN [r1 EXCEPT !.completed_at = now]
              ELSE r1
    IN  IF error_message # None /\ error_message # ""
        THEN [r2 EXCEPT !.error_message = error_message]
        ELSE r2

\* ScanResult.update_status on a row, at instant now; the row it commits
update_status(row, status, error_message, now) ==
    LET r1 == [row EXCEPT !.status = status]
        r2 == IF status = RUNNING /\ row.started_at = NoTime
              THEN [r1 EXCEPT !.started_at = now]
              ELSE IF status \in {COMPLETED, FAILED}
              THEN [r1 EXCEPT !.completed_at = now,
                              !.duration_seconds =
                                  IF row.started_at # NoTime THEN now - row.started_at ELSE @]
              ELSE r1
    IN  IF error_message # None /\ error_message # ""
        THEN [r2 EXCEPT !.error_message = error_message]
        ELSE r2

(***************************************************************************)
(* NmapScanner.parse_nmap_xml, _parse_host, _parse_port                    *)
(***************************************************************************)

\* int(text) for an attribute value: surrounding whitespace is stripped,
\* one sign is allowed, the rest must be decimal digits; int(None) and any
\* other text raise.  value is meaningful when ok.
int_of_digits(neg, digits) ==
    IF ~IsDigits(digits) THEN [ok |-> FALSE, value |-> 0]
    ELSE [ok |-> TRUE, value |-> IF neg THEN 0 - IntOf(digits, 10) ELSE IntOf(digits, 10)]

int_of_stripped(t) ==
    IF t = <<>> THEN [ok |-> FALSE, value |-> 0]
    ELSE IF Head(t) \in {"-", "+"} THEN int_of_digits(Head(t) = "-", Tail(t))
    ELSE int_of_digits(FALSE, t)

int_of(text) ==
    IF text = NoneStr THEN [ok |-> FALSE, value |-> 0]
    ELSE int_of_stripped(Strip(text))

\* the empty dictionary a parser returns from its except branch
EmptyDict == [parsed |-> FALSE]

\* the service of a port without a service element: the empty dictionary
\* of line 431, whose get("extrainfo") is None.  Of the attributes a
\* service element carries (lines 441-446) only extrainfo is modelled.
NoService == [present |-> FALSE, extrainfo |-> None]

\* _parse_port, lines 424-453, on the converted portid: the conversion is
\* the only statement of the try block that can raise
port_data(port_element, portid) ==
    IF ~portid.ok THEN EmptyDict
    ELSE [parsed |-> TRUE,
          protocol |-> port_element.protocol,
          portid |-> portid.value,
          state |-> port_element.state,
          service |-> port_element.service]

_parse_port(port_element) == port_data(port_element, int_of(port_element.portid))

RECURSIVE parse_ports(_)
\* _parse_host, lines 401-406: the ports that parsed, in document order
parse_ports(port_elements) ==
    IF port_elements = <<>> THEN <<>>
    ELSE (IF _parse_port(Head(port_elements)).parsed
          THEN <<_parse_port(Head(port_elements))>> ELSE <<>>)
         \o parse_ports(Tail(port_elements))

\* _parse_host, lines 368-422: find and get return None for what is not
\* there and nothing in the try block raises, so the except branch of line
\* 420 is never taken.  Addresses, hostnames and os are not modelled.
_parse_host(host_element) ==
    [parsed |-> TRUE,
     status |-> host_element.status,
     ports |-> parse_ports(host_element.ports)]

RECURSIVE parse_hosts(_)
\* parse_nmap_xml, lines 343-346: the hosts whose dictionary is not empty
parse_hosts(host_elements) ==
    IF host_elements = <<>> THEN <<>>
    ELSE (IF _parse_host(Head(host_elements)).parsed
          THEN <<_parse_host(Head(host_elements))>> ELSE <<>>)
         \o parse_hosts(Tail(host_elements))

RECURSIVE total_ports(_)
\* parse_nmap_xml, line 355, summed over the hosts
total_ports(hosts) ==
    IF hosts = <<>> THEN 0 ELSE Len(Head(hosts).ports) + total_ports(Tail(hosts))

\* parse_nmap_xml, lines 348-357, on the list of parsed hosts: a host is
\* counted up when its status is "up" and down in every other case
parse_stats(hosts) ==
    [hosts_up |-> Cardinality({i \in 1..Len(hosts) : hosts[i].status = "up"}),
     hosts_down |-> Cardinality({i \in 1..Len(hosts) : hosts[i].status # "up"}),
     total_hosts |-> Len(hosts),
     total_ports |-> total_ports(hosts)]

\* the dictionary of a parsed document
parse_results(hosts) == [error |-> FALSE, hosts |-> hosts, stats |-> parse_stats(hosts)]

\* the dictionary of a document ET.fromstring rejects (lines 361-363)
ParseErrorResult ==
    [error |-> TRUE, hosts |-> <<>>,
     stats |-> [hosts_up |-> 0, hosts_down |-> 0, total_hosts |-> 0, total_ports |-> 0]]

\* parse_nmap_xml, lines 314-366, on a document given as its tree: whether
\* it is well-formed XML and the host elements under its root.  scan_info
\* is not modelled.
parse_nmap_xml(document) ==
    IF ~document.wellformed THEN ParseErrorResult
    ELSE parse_results(parse_hosts(document.hosts))

\* no document, no result
NoDocument == [wellformed |-> FALSE, hosts |-> <<>>]

\* no record is storing a result
NotStored ==
    [scan_type |-> "", assigned |-> FALSE, raw_output |-> None,
     parsed_results |-> None, hosts_up |-> 0, ports_found |-> 0,
     vulnerabilities_found |-> 0]

NotParsed == [called |-> FALSE] @@ ParseErrorResult

(***************************************************************************)
(* State after start-up: an empty table, an empty broker, an idle pool.   *)
(***************************************************************************)

NotCalled == [called |-> FALSE, valid |-> FALSE, error |-> None,
              command |-> NoCommand, calls |-> <<>>]

NoRequest == [target |-> <<>>, scan_type |-> "", custom_args |-> NoneStr]

\* the answer of a request handler
NoResponse == [op |-> "", scan_id |-> 0, answer |-> ""]

Response(op, scan_id, answer) == [op |-> op, scan_id |-> scan_id, answer |-> answer]

\* no file at the path; no open file in the follower
NoFile == 0

\* what the log holds when the script starts
OldLines == <<0>>

\* LogFollower.__init__, lines 48-52, on an existing log: the file is
\* open, positioned at its end, and its inode is remembered
LogOpened ==
    /\ logfiles = <<OldLines>>
    /\ logpath = 1
    /\ follower = [file_handle |-> 1, inode |-> 1, pos |-> Len(OldLines),
                   pc |-> "idle"]
    /\ returned = <<>>
    /\ appended = <<>>

LifecycleInit ==
    /\ scans = <<>>
    /\ queue = {}
    /\ revoked = {}
    /\ runs = {}
    /\ procs = {}
    /\ nextTask = 1
    /\ clock = 1
    /\ creating = {}
    /\ sweep = {}
    /\ task_app = FALSE
    /\ celery_db = FALSE
    /\ response = NoResponse
    /\ LogOpened

(***************************************************************************)
(* Stand-alone calls of validate_and_prepare_scan                          *)
(***************************************************************************)

PrepInit ==
    /\ LifecycleInit
    /\ prepIn \in PrepInputs
    /\ prepOut = NotCalled
    /\ xmlIn = NoDocument
    /\ xmlOut = NotParsed
    /\ stored = NotStored

\* one call of NmapScanner.validate_and_prepare_scan on the drawn request
PrepareScan ==
    /\ ~prepOut.called
    /\ prepOut' = [called |-> TRUE] @@
                  validate_and_prepare_scan(prepIn.target, prepIn.scan_type,
                                            prepIn.custom_args)
    /\ UNCHANGED <<scans, queue, revoked, runs, procs, nextTask, clock, creating,
                   sweep, task_app, celery_db, prepIn, response, xmlIn, xmlOut, stored, logVars>>

PrepNext == PrepareScan

PrepSpec == PrepInit /\ [][PrepNext]_vars

(***************************************************************************)
(* Stand-alone calls of parse_nmap_xml                                     *)
(***************************************************************************)

\* the size of the documents a call is checked on
MaxHosts == 2
MaxPorts == 2

\* portid attributes: two ports, the values around the range of port
\* numbers, and a text that is no number
PortIds == {<<"2", "2">>, <<"8", "0">>, <<"0">>, <<"6", "5", "5", "3", "6">>, <<"x">>}

\* port elements
PortElements == [protocol : {"tcp"}, portid : PortIds, state : {"open"}, service : {NoService}]

\* the state attribute of a host's status element; None when the host has
\* no status element
HostStates == {"up", "down", "unknown", None}

\* host elements with at most MaxPorts ports
HostElements ==
    [status : HostStates,
     ports : UNION {[1..n -> PortElements] : n \in 0..MaxPorts}]

\* the documents: one that is not well-formed XML, and every tree of at
\* most MaxHosts host elements
Documents ==
    {NoDocument} \cup
    [wellformed : {TRUE},
     hosts : UNION {[1..n -> HostElements] : n \in 0..MaxHosts}]

ParseInit ==
    /\ LifecycleInit
    /\ prepIn = NoRequest
    /\ prepOut = NotCalled
    /\ xmlIn \in Documents
    /\ xmlOut = NotParsed
    /\ stored = NotStored

\* one call of NmapScanner.parse_nmap_xml on the drawn document
ParseXml ==
    /\ ~xmlOut.called
    /\ xmlOut' = [called |-> TRUE] @@ parse_nmap_xml(xmlIn)
    /\ UNCHANGED <<scans, queue, revoked, runs, procs, nextTask, clock, creating,
                   sweep, task_app, celery_db, prepIn, prepOut, response, xmlIn, stored, logVars>>

ParseNext == ParseXml

ParseSpec == ParseInit /\ [][ParseNext]_vars

(***************************************************************************)
(* Storing a result: the success branch of execute_scan_task (worker.py)   *)
(***************************************************************************)

\* service.get("extrainfo") is truthy
HasExtraInfo(service) == service.extrainfo # None /\ service.extrainfo # ""

\* lines 137-144: the ports, over all hosts, whose service has extrainfo
vuln_count(hosts) ==
    Cardinality(UNION {{<<i, j>> : j \in {k \in 1..Len(hosts[i].ports) :
                                              HasExtraInfo(hosts[i].ports[k].service)}} :
                       i \in 1..Len(hosts)})

\* stats.get(key, 0) of lines 131-133: a parse-error dictionary has no stats
stats_get(parsed, key) == IF parsed.error THEN 0 ELSE parsed.stats[key]

\* a success branch that takes ports_found from the number of hosts
store_results_PortsFromHosts(row, scan_type, raw_output, parsed) ==
    [row EXCEPT !.assigned = TRUE,
                !.raw_output = raw_output,
                !.parsed_results = parsed,
                !.hosts_up = stats_get(parsed, "hosts_up"),
                !.ports_found = stats_get(parsed, "total_hosts"),
                !.vulnerabilities_found =
                    IF scan_type = "vuln" THEN vuln_count(parsed.hosts) ELSE @]

\* a success branch that counts vulnerabilities for every profile
store_results_CountsEveryProfile(row, scan_type, raw_output, parsed) ==
    [row EXCEPT !.assigned = TRUE,
                !.raw_output = raw_output,
                !.parsed_results = parsed,
                !.hosts_up = stats_get(parsed, "hosts_up"),
                !.ports_found = stats_get(parsed, "total_ports"),
                !.vulnerabilities_found = vuln_count(parsed.hosts)]

\* execute_scan_task, lines 123-145: the columns the success branch assigns
\* before update_status(COMPLETED); scan_type is the task's argument
store_results(row, scan_type, raw_output, parsed) ==
    [row EXCEPT !.assigned = TRUE,
                !.raw_output = raw_output,
                !.parsed_results = parsed,
                !.hosts_up = stats_get(parsed, "hosts_up"),
                !.ports_found = stats_get(parsed, "total_ports"),
                !.vulnerabilities_found =
                    IF scan_type = "vuln" THEN vuln_count(parsed.hosts) ELSE @]

\* the service elements of a port: none, one without extrainfo, one with
\* an empty and one with a non-empty extrainfo
Services ==
    {NoService} \cup [present : {TRUE}, extrainfo : {None, "", "protocol 2.0"}]

StorePortElements ==
    [protocol : {"tcp"}, portid : {<<"2", "2">>, <<"x">>}, state : {"open"}, service : Services]

StoreHostElements ==
    [status : {"up", "down"},
     ports : UNION {[1..n -> StorePortElements] : n \in 0..MaxPorts}]

\* the outputs of the tool: one that is not well-formed XML, and every
\* tree of at most MaxHosts host elements
StoreDocuments ==
    {NoDocument} \cup
    [wellformed : {TRUE},
     hosts : UNION {[1..n -> StoreHostElements] : n \in 0..MaxHosts}]

\* the profiles of the runs: one that is not vuln, and vuln
StoreScanTypes == {"quick", "vuln"}

\* what the three counters hold when the run is not the first to complete
LeftOver == 2

\* the result columns of a running record: the defaults of a new record
\* (models.py 97-99), or the counters an earlier completed run left
RunningColumns ==
    {[NotStored EXCEPT !.scan_type = t,
                       !.hosts_up = v,
                       !.ports_found = v,
                       !.vulnerabilities_found = IF t = "vuln" THEN v ELSE 0] :
        t \in StoreScanTypes, v \in {0, LeftOver}}

StoreInit ==
    /\ LifecycleInit
    /\ prepIn = NoRequest
    /\ prepOut = NotCalled
    /\ xmlIn \in StoreDocuments
    /\ xmlOut = NotParsed
    /\ stored \in RunningColumns

\* lines 123-145 for a result with success True whose raw_output is the
\* drawn document and whose parsed_results is what parse_nmap_xml returned
StoreResults ==
    /\ xmlOut.called
    /\ stored.scan_type \in StoreScanTypes
    /\ ~stored.assigned
    /\ stored' = store_results(stored, stored.scan_type, xmlIn,
                               [k \in DOMAIN xmlOut \ {"called"} |-> xmlOut[k]])
    /\ UNCHANGED <<scans, queue, revoked, runs, procs, nextTask, clock, creating,
                   sweep, task_app, celery_db, prepIn, prepOut, response, xmlIn, xmlOut, logVars>>

StoreNext == ParseXml \/ StoreResults

StoreSpec == StoreInit /\ [][StoreNext]_vars

(***************************************************************************)
(* The log follower of rpi-scripts/log_stream_sse.py.  A file is the       *)
(* sequence of its lines; the writer appends whole lines.  Lines are       *)
(* numbered in the order they are written.                                 *)
(***************************************************************************)

MaxLines == 3
MaxRotations == 2

\* the follower without an open file (open_file's except branch)
NotOpen == [file_handle |-> NoFile, inode |-> NoFile, pos |-> 0, pc |-> "idle"]

\* LogFollower.open_file: the old handle is closed, a missing file is
\* created empty, the file at the path is opened and positioned at its end
\* (seek(0, 2)) and its inode is remembered; when a step raises (ok false)
\* the follower is left without a file
open_file(files, path, ok) ==
    LET touched == Append(files, <<>>)
        files1 == IF path = NoFile THEN touched ELSE files
        path1 == IF path = NoFile THEN Len(touched) ELSE path
    IN  IF ok
        THEN [files |-> files1, path |-> path1,
              follower |-> [file_handle |-> path1, inode |-> path1,
                            pos |-> Len(files1[path1]), pc |-> "idle"]]
        ELSE [files |-> files, path |-> path, follower |-> NotOpen]

\* LogFollower.check_rotation while the path names a file: the file is
\* reopened when its inode is not the remembered one
check_rotation(files, path, f, ok) ==
    IF path # f.inode
    THEN open_file(files, path, ok)
    ELSE [files |-> files, path |-> path, follower |-> f]

\* read_new_lines after check_rotation, lines 103-117: readline until the
\* end of the open file; reading without a file raises, the file is opened
\* again and nothing is returned
read_lines(o, ok) ==
    IF o.follower.file_handle = NoFile
    THEN open_file(o.files, o.path, ok) @@ [lines |-> <<>>]
    ELSE LET file == o.files[o.follower.file_handle]
         IN  [files |-> o.files, path |-> o.path,
              follower |-> [o.follower EXCEPT !.pos = Len(file)],
              lines |-> SubSeq(file, o.follower.pos + 1, Len(file))]

\* LogFollower.read_new_lines while the path names a file
read_new_lines(files, path, f, ok1, ok2) ==
    IF f.file_handle = NoFile
    THEN open_file(files, path, ok1) @@ [lines |-> <<>>]
    ELSE read_lines(check_rotation(files, path, f, ok1), ok2)

\* the files, the follower and the returned lines after a call
Returns(o) ==
    /\ logfiles' = o.files
    /\ logpath' = o.path
    /\ follower' = o.follower
    /\ returned' = returned \o o.lines

\* the application writes its next line to the log
AppendLine ==
    /\ logpath # NoFile
    /\ Len(appended) < MaxLines
    /\ logfiles' = [logfiles EXCEPT ![logpath] = Append(@, Len(appended) + 1)]
    /\ appended' = Append(appended, Len(appended) + 1)
    /\ UNCHANGED <<scans, queue, revoked, runs, procs, nextTask, clock, creating,
                   sweep, task_app, celery_db, prepIn, prepOut, response, xmlIn,
                   xmlOut, stored, logpath, follower, returned>>

\* rotation, first half: the log is renamed away
RotateAway ==
    /\ logpath # NoFile
    /\ Len(logfiles) <= MaxRotations
    /\ logpath' = NoFile
    /\ UNCHANGED <<scans, queue, revoked, runs, procs, nextTask, clock, creating,
                   sweep, task_app, celery_db, prepIn, prepOut, response, xmlIn,
                   xmlOut, stored, logfiles, follower, returned, appended>>

\* rotation, second half: the replacement file is created at the path
CreateLog ==
    /\ logpath = NoFile
    /\ logfiles' = Append(logfiles, <<>>)
    /\ logpath' = Len(logfiles) + 1
    /\ UNCHANGED <<scans, queue, revoked, runs, procs, nextTask, clock, creating,
                   sweep, task_app, celery_db, prepIn, prepOut, response, xmlIn,
                   xmlOut, stored, follower, returned, appended>>

\* handle_log_stream, line 173: one call of read_new_lines that finds a
\* file at the path, or has no file open
ReadNewLines ==
    /\ follower.pc = "idle"
    /\ logpath # NoFile \/ follower.file_handle = NoFile
    /\ \E ok1, ok2 \in BOOLEAN :
           Returns(read_new_lines(logfiles, logpath, follower, ok1, ok2))
    /\ UNCHANGED <<scans, queue, revoked, runs, procs, nextTask, clock, creating,
                   sweep, task_app, celery_db, prepIn, prepOut, response, xmlIn,
                   xmlOut, stored, appended>>

\* check_rotation, lines 86-88: os.stat finds no file at the path and the
\* follower sleeps
ReadNewLinesSleep ==
    /\ follower.pc = "idle"
    /\ follower.file_handle # NoFile
    /\ logpath = NoFile
    /\ follower' = [follower EXCEPT !.pc = "sleep"]
    /\ UNCHANGED <<scans, queue, revoked, runs, procs, nextTask, clock, creating,
                   sweep, task_app, celery_db, prepIn, prepOut, response, xmlIn,
                   xmlOut, stored, logfiles, logpath, returned, appended>>

\* check_rotation, lines 89-93, and the rest of read_new_lines: after the
\* sleep the file is opened whatever the path names by then
ReadNewLinesWake ==
    /\ follower.pc = "sleep"
    /\ \E ok1, ok2 \in BOOLEAN :
           Returns(read_lines(open_file(logfiles, logpath, ok1), ok2))
    /\ UNCHANGED <<scans, queue, revoked, runs, procs, nextTask, clock, creating,
                   sweep, task_app, celery_db, prepIn, prepOut, response, xmlIn,
                   xmlOut, stored, appended>>

LogNext ==
    \/ AppendLine
    \/ RotateAway
    \/ CreateLog
    \/ ReadNewLines
    \/ ReadNewLinesSleep
    \/ ReadNewLinesWake

\* the script has started on an existing log; the scan service is idle
LogInit ==
    /\ LifecycleInit
    /\ prepIn = NoRequest
    /\ prepOut = NotCalled
    /\ xmlIn = NoDocument
    /\ xmlOut = NotParsed
    /\ stored = NotStored

LogSpec == LogInit /\ [][LogNext]_vars

(***************************************************************************)
(* The service: create_scan, cancel_scan (app.py)                          *)
(***************************************************************************)

\* the requests clients submit: a quick scan of a private host, a custom
\* scan whose arguments carry a shell metacharacter, a scan of loopback
LifecycleRequests == {
    [target |-> <<"1", "9", "2", ".", "1", "6", "8", ".", "1", ".", "5">>, scan_type |-> "quick", custom_args |-> NoneStr],
    [target |-> <<"1", "9", "2", ".", "1", "6", "8", ".", "1", ".", "5">>, scan_type |-> "custom", custom_args |-> <<"-", "T", "4", ";", " ", "r", "m", " ", "-", "r", "f", " ", "/">>],
    [target |-> <<"1", "2", "7", ".", "0", ".", "0", ".", "1">>, scan_type |-> "default", custom_args |-> NoneStr] }

\* the message apply_async publishes: args=[scan.id, target, scan_type,
\* custom_args] under a fresh task id; deliveries counts the times the
\* broker has handed it to a worker
Job(task, scan_id, target, scan_type, custom_args) ==
    [task |-> task, scan_id |-> scan_id, target |-> target,
     scan_type |-> scan_type, custom_args |-> custom_args, deliveries |-> 0]

\* a create_scan that takes the id of its record from the number of rows
\* it counted before the insert
Submit_IdFromCount(requests, max_scans) ==
    \E req \in requests :
        /\ Len(scans) < max_scans
        /\ Truthy(req.target)
        /\ req.scan_type \in ScanTypeValues
        /\ scans' = Append(scans, NewScan(req.target, req.scan_type, req.custom_args))
        /\ creating' = creating \cup
               {[scan_id |-> IF scans = <<>> THEN 1 ELSE Len(scans),
                 req |-> req, task |-> NoTask]}
        /\ UNCHANGED <<queue, revoked, runs, procs, nextTask, clock, sweep,
                       task_app, celery_db, prepIn, prepOut, response, xmlIn, xmlOut, stored, logVars>>

\* create_scan, lines 223-251, for a request of the given set while fewer
\* than max_scans records exist: the request is checked, the row inserted
\* and committed; the id is the autoincrement primary key the insert
\* assigns (models.py line 75), the next unused one
Submit(requests, max_scans) ==
    \E req \in requests :
        /\ Len(scans) < max_scans
        /\ Truthy(req.target)
        /\ req.scan_type \in ScanTypeValues
        /\ scans' = Append(scans, NewScan(req.target, req.scan_type, req.custom_args))
        /\ creating' = creating \cup
               {[scan_id |-> Len(scans) + 1, req |-> req, task |-> NoTask]}
        /\ UNCHANGED <<queue, revoked, runs, procs, nextTask, clock, sweep,
                       task_app, celery_db, prepIn, prepOut, response, xmlIn, xmlOut, stored, logVars>>

\* a call of create_scan
CreateScan == Submit(LifecycleRequests, MaxScans)

\* create_scan, line 255: apply_async publishes the job
CreateEnqueue ==
    \E c \in creating :
        /\ c.task = NoTask
        /\ nextTask <= MaxTasks
        /\ queue' = queue \cup {Job(nextTask, c.scan_id, c.req.target,
                                    c.req.scan_type, c.req.custom_args)}
        /\ creating' = (creating \ {c}) \cup {[c EXCEPT !.task = nextTask]}
        /\ nextTask' = nextTask + 1
        /\ UNCHANGED <<scans, revoked, runs, procs, clock, sweep, task_app,
                       celery_db, prepIn, prepOut, response, xmlIn, xmlOut, stored, logVars>>

\* create_scan whose except branch only answers 500
CreateEnqueueFails_LeavesQueued ==
    \E c \in creating :
        /\ c.task = NoTask
        /\ creating' = creating \ {c}
        /\ UNCHANGED <<scans, queue, revoked, runs, procs, nextTask, clock, sweep,
                       task_app, celery_db, prepIn, prepOut, response, xmlIn, xmlOut, stored, logVars>>

\* create_scan, lines 271-274: apply_async raised, the row is marked failed
CreateEnqueueFails ==
    \E c \in creating :
        /\ c.task = NoTask
        /\ scans' = [scans EXCEPT ![c.scan_id] =
                        update_status(@, FAILED, "broker unavailable", clock)]
        /\ creating' = creating \ {c}
        /\ UNCHANGED <<queue, revoked, runs, procs, nextTask, clock, sweep,
                       task_app, celery_db, prepIn, prepOut, response, xmlIn, xmlOut, stored, logVars>>

\* create_scan, lines 260-261: the task id is written to the row
CreateSetTaskId ==
    \E c \in creating :
        /\ c.task # NoTask
        /\ scans' = [scans EXCEPT ![c.scan_id].task_id = c.task]
        /\ creating' = creating \ {c}
        /\ UNCHANGED <<queue, revoked, runs, procs, nextTask, clock, sweep,
                       task_app, celery_db, prepIn, prepOut, response, xmlIn, xmlOut, stored, logVars>>

\* cancel_scan without the status test of lines 378-380
CancelScan_AnyStatus(scan_id) ==
    /\ IF scan_id \notin DOMAIN scans
       THEN /\ response' = Response("cancel_scan", scan_id, "404 Scan not found")
            /\ UNCHANGED <<scans, revoked>>
       ELSE /\ revoked' = IF scans[scan_id].task_id # NoTask
                          THEN revoked \cup {scans[scan_id].task_id}
                          ELSE revoked
            /\ scans' = [scans EXCEPT ![scan_id] =
                            update_status(@, CANCELLED, None, clock)]
            /\ response' = Response("cancel_scan", scan_id, "200 Scan cancelled successfully")
    /\ UNCHANGED <<queue, runs, procs, nextTask, clock, creating, sweep,
                   task_app, celery_db, prepIn, prepOut, xmlIn, xmlOut, stored, logVars>>

\* cancel_scan, lines 368-390, by a caller who may access the scan: an
\* unknown id is answered 404, a scan that is neither queued nor running
\* 400, and both change nothing.  revoke only publishes the revocation.
CancelScan(scan_id) ==
    /\ IF scan_id \notin DOMAIN scans
       THEN /\ response' = Response("cancel_scan", scan_id, "404 Scan not found")
            /\ UNCHANGED <<scans, revoked>>
       ELSE IF scans[scan_id].status \notin {QUEUED, RUNNING}
       THEN /\ response' = Response("cancel_scan", scan_id, "400 Scan cannot be cancelled")
            /\ UNCHANGED <<scans, revoked>>
       ELSE /\ revoked' = IF scans[scan_id].task_id # NoTask
                          THEN revoked \cup {scans[scan_id].task_id}
                          ELSE revoked
            /\ scans' = [scans EXCEPT ![scan_id] =
                            update_status(@, CANCELLED, None, clock)]
            /\ response' = Response("cancel_scan", scan_id, "200 Scan cancelled successfully")
    /\ UNCHANGED <<queue, runs, procs, nextTask, clock, creating, sweep,
                   task_app, celery_db, prepIn, prepOut, xmlIn, xmlOut, stored, logVars>>

\* a call of cancel_scan with one of the ids 1..max_scans
CancelAmong(max_scans) == \E scan_id \in 1..max_scans : CancelScan(scan_id)

\* a call of cancel_scan
Cancel == CancelAmong(MaxScans)

(***************************************************************************)
(* The worker: execute_scan_task (worker.py), run_nmap_scan (nmap_scan.py) *)
(***************************************************************************)

NoResult == [success |-> FALSE, error |-> None, raw_output |-> None,
             parsed_results |-> None, duration |-> NoDuration]

\* what scan() returns for a rejected request (lines 470-476)
RejectedResult(error) == [NoResult EXCEPT !.error = error]

\* what run_nmap_scan returns when NmapScanner() raised (lines 508-515)
RaisedResult(error) == [NoResult EXCEPT !.error = error]

\* where scan() goes after validate_and_prepare_scan (line 470)
ScanAlwaysExecutes(prep) == "exec"

ScanNextPc(prep) == IF ~prep.valid THEN "finish" ELSE "exec"

\* the ways subprocess.run(command) ends in execute_scan
ExecOutcomes == {"ok", "unparsable", "nonzero", "timeout"}

\* what execute_scan returns (lines 273-305); a top-level parse error is
\* returned by parse_nmap_xml as a dict and counts as success
execute_scan_result(outcome, duration) ==
    CASE outcome = "ok" ->
            [success |-> TRUE, error |-> None, raw_output |-> "<nmaprun>",
             parsed_results |-> "{hosts, stats}", duration |-> duration]
      [] outcome = "unparsable" ->
            [success |-> TRUE, error |-> None, raw_output |-> "not xml",
             parsed_results |-> "{error}", duration |-> duration]
      [] outcome = "nonzero" ->
            [NoResult EXCEPT !.error = "Nmap scan failed", !.duration = duration]
      [] outcome = "timeout" ->
            [NoResult EXCEPT !.error = "Scan timeout after 300 seconds",
                             !.duration = duration]

\* the message is acknowledged when its task ends (task_acks_late)
Ack(task) == {j \in queue : j.task # task}

\* the processes a run has spawned
ProcsOf(r) == {p \in procs : p.task = r.task /\ p.delivery = r.delivery}

\* the process table once run r is over: its exited processes are reaped
Reaped(r) == {p \in procs : p \notin ProcsOf(r) \/ p.alive}

\* execute_scan_task, line 106, on a task object whose db property was
\* never read: _app is not the Flask application, the call raises before
\* the row is loaded and the message is acknowledged
TaskRaises ==
    \E job \in queue :
        /\ ~task_app
        /\ queue' = queue \ {job}
        /\ UNCHANGED <<scans, revoked, runs, procs, nextTask, clock, creating,
                       sweep, task_app, celery_db, prepIn, prepOut, response, xmlIn, xmlOut, stored, logVars>>

\* execute_scan_task, lines 106-115: a worker takes a delivery of the
\* message, loads the row and commits status running.  The broker hands an
\* unacknowledged message to one worker at a time.
WorkerBegin ==
    \E job \in queue :
        /\ task_app
        /\ job.deliveries < MaxDeliveries
        /\ \A r \in runs : r.task # job.task
        /\ Cardinality(runs) < MaxRuns
        /\ queue' = (queue \ {job}) \cup {[job EXCEPT !.deliveries = @ + 1]}
        /\ scans' = [scans EXCEPT ![job.scan_id] =
                        update_status(@, RUNNING, None, clock)]
        /\ runs' = runs \cup
               {[task |-> job.task, scan_id |-> job.scan_id,
                 delivery |-> job.deliveries + 1, target |-> job.target,
                 scan_type |-> job.scan_type, custom_args |-> job.custom_args,
                 pc |-> "begun", prep |-> NotCalled, result |-> NoResult,
                 start |-> NoTime]}
        /\ UNCHANGED <<revoked, procs, nextTask, clock, creating, sweep,
                       task_app, celery_db, prepIn, prepOut, response, xmlIn, xmlOut, stored, logVars>>

\* execute_scan_task, lines 116-117
WorkerSetTaskId ==
    \E r \in runs :
        /\ r.pc = "begun"
        /\ scans' = [scans EXCEPT ![r.scan_id].task_id = r.task]
        /\ runs' = (runs \ {r}) \cup {[r EXCEPT !.pc = "tagged"]}
        /\ UNCHANGED <<queue, revoked, procs, nextTask, clock, creating, sweep,
                       task_app, celery_db, prepIn, prepOut, response, xmlIn, xmlOut, stored, logVars>>

\* execute_scan_task, lines 169-179: an exception raised in the try block
\* outside run_nmap_scan (the soft time limit of line 44 is delivered as
\* one) is caught and the row marked failed
WorkerFault ==
    \E r \in runs :
        /\ r.pc = "begun"
        /\ scans' = [scans EXCEPT ![r.scan_id] =
                        update_status(@, FAILED, "Task execution error: SoftTimeLimitExceeded()", clock)]
        /\ runs' = runs \ {r}
        /\ queue' = Ack(r.task)
        /\ procs' = Reaped(r)
        /\ UNCHANGED <<revoked, nextTask, clock, creating, sweep,
                       task_app, celery_db, prepIn, prepOut, response, xmlIn, xmlOut, stored, logVars>>

\* NmapScanner.__init__, lines 187-198, called from run_nmap_scan line 505:
\* the version probe runs to its end; when the binary is absent no process
\* starts and the exception becomes the result of run_nmap_scan
ScannerInit ==
    \E r \in runs, available \in BOOLEAN :
        /\ r.pc = "tagged"
        /\ IF available
           THEN /\ procs' = procs \cup
                      {[scan_id |-> r.scan_id, task |-> r.task,
                        delivery |-> r.delivery, command |-> VersionCommand,
                        alive |-> FALSE]}
                /\ runs' = (runs \ {r}) \cup {[r EXCEPT !.pc = "inited"]}
           ELSE /\ procs' = procs
                /\ runs' = (runs \ {r}) \cup
                      {[r EXCEPT !.pc = "finish",
                                 !.result = RaisedResult("Nmap initialization failed")]}
        /\ UNCHANGED <<scans, queue, revoked, nextTask, clock, creating, sweep,
                       task_app, celery_db, prepIn, prepOut, response, xmlIn, xmlOut, stored, logVars>>

\* the arguments a job can carry: those of a submission (create_scan line
\* 256) and those the sweep reads back from the row (worker.py line 299)
JobArgs ==
    UNION {{[target |-> q.target, scan_type |-> q.scan_type, custom_args |-> ca] :
               ca \in {q.custom_args,
                       NewScan(q.target, q.scan_type, q.custom_args).scan_args}} :
           q \in LifecycleRequests}

\* validate_and_prepare_scan on each of them, computed once
PreparedScan ==
    [ja \in JobArgs |-> validate_and_prepare_scan(ja.target, ja.scan_type, ja.custom_args)]

\* the run after line 468 returned prep: rejected (lines 470-476) or
\* about to execute
Prepared(r, prep) ==
    [r EXCEPT !.prep = [called |-> TRUE] @@ prep,
              !.pc = ScanNextPc(prep),
              !.result = IF ScanNextPc(prep) = "finish"
                         THEN RejectedResult(prep.error) ELSE @]

\* NmapScanner.scan, lines 468-476
Prepare ==
    \E r \in runs :
        /\ r.pc = "inited"
        /\ runs' = (runs \ {r}) \cup
               {Prepared(r, PreparedScan[[target |-> r.target,
                                          scan_type |-> r.scan_type,
                                          custom_args |-> r.custom_args]])}
        /\ UNCHANGED <<scans, queue, revoked, procs, nextTask, clock, creating,
                       sweep, task_app, celery_db, prepIn, prepOut, response, xmlIn, xmlOut, stored, logVars>>

\* NmapScanner.execute_scan, lines 260-271: subprocess.run starts the tool
ExecSpawn ==
    \E r \in runs :
        /\ r.pc = "exec"
        /\ procs' = procs \cup
               {[scan_id |-> r.scan_id, task |-> r.task, delivery |-> r.delivery,
                 command |-> r.prep.command, alive |-> TRUE]}
        /\ runs' = (runs \ {r}) \cup {[r EXCEPT !.pc = "wait", !.start = clock]}
        /\ UNCHANGED <<scans, queue, revoked, nextTask, clock, creating, sweep,
                       task_app, celery_db, prepIn, prepOut, response, xmlIn, xmlOut, stored, logVars>>

\* an execute_scan that returns without waiting for the tool to exit
ExecExit_LeavesProcess ==
    \E r \in runs, outcome \in ExecOutcomes :
        /\ r.pc = "wait"
        /\ runs' = (runs \ {r}) \cup
               {[r EXCEPT !.pc = "finish",
                          !.result = execute_scan_result(outcome, clock - r.start)]}
        /\ UNCHANGED <<scans, queue, revoked, procs, nextTask, clock, creating,
                       sweep, task_app, celery_db, prepIn, prepOut, response, xmlIn, xmlOut, stored, logVars>>

\* NmapScanner.execute_scan, lines 273-305: the tool has exited, or
\* subprocess.run has killed it at the timeout
ExecExit ==
    \E r \in runs, outcome \in ExecOutcomes :
        /\ r.pc = "wait"
        /\ procs' = {IF p.task = r.task /\ p.delivery = r.delivery
                     THEN [p EXCEPT !.alive = FALSE] ELSE p : p \in procs}
        /\ runs' = (runs \ {r}) \cup
               {[r EXCEPT !.pc = "finish",
                          !.result = execute_scan_result(outcome, clock - r.start)]}
        /\ UNCHANGED <<scans, queue, revoked, nextTask, clock, creating, sweep,
                       task_app, celery_db, prepIn, prepOut, response, xmlIn, xmlOut, stored, logVars>>

\* a task that takes the success branch for every result
FinishedRow_AlwaysCompleted(row, result, now) ==
    update_status([row EXCEPT !.raw_output = result.raw_output,
                              !.parsed_results = result.parsed_results,
                              !.duration_seconds = result.duration],
                  COMPLETED, None, now)

\* a task that commits the status before it writes the output fields
FinishedRow_StatusFirst(row, result, now) ==
    IF result.success
    THEN update_status(row, COMPLETED, None, now)
    ELSE update_status(row, FAILED, result.error, now)

\* the row execute_scan_task commits for a result, lines 123-167
FinishedRow(row, result, now) ==
    IF result.success
    THEN update_status([row EXCEPT !.raw_output = result.raw_output,
                                   !.parsed_results = result.parsed_results,
                                   !.duration_seconds = result.duration],
                       COMPLETED, None, now)
    ELSE update_status(row, FAILED, result.error, now)

\* an execute_scan_task that finds the records to write by their target
WorkerFinish_ByTarget ==
    \E r \in runs :
        /\ r.pc = "finish"
        /\ scans' = [i \in DOMAIN scans |->
                        IF scans[i].target = scans[r.scan_id].target
                        THEN FinishedRow(scans[i], r.result, clock)
                        ELSE scans[i]]
        /\ runs' = runs \ {r}
        /\ queue' = Ack(r.task)
        /\ procs' = Reaped(r)
        /\ UNCHANGED <<revoked, nextTask, clock, creating, sweep,
                       task_app, celery_db, prepIn, prepOut, response, xmlIn, xmlOut, stored, logVars>>

\* execute_scan_task, lines 123-167: the result is written to the row and
\* the task returns
WorkerFinish ==
    \E r \in runs :
        /\ r.pc = "finish"
        /\ scans' = [scans EXCEPT ![r.scan_id] = FinishedRow(@, r.result, clock)]
        /\ runs' = runs \ {r}
        /\ queue' = Ack(r.task)
        /\ procs' = Reaped(r)
        /\ UNCHANGED <<revoked, nextTask, clock, creating, sweep,
                       task_app, celery_db, prepIn, prepOut, response, xmlIn, xmlOut, stored, logVars>>

(***************************************************************************)
(* Revocation (celery_app.control.revoke(task_id, terminate=True))         *)
(***************************************************************************)

\* the revocation reaches the worker while the task executes: the pool
\* process running it is signalled and the message acknowledged.  The tool
\* process, a child of the pool process, is not signalled.
Terminate ==
    \E r \in runs :
        /\ r.task \in revoked
        /\ runs' = runs \ {r}
        /\ queue' = Ack(r.task)
        /\ procs' = Reaped(r)
        /\ UNCHANGED <<scans, revoked, nextTask, clock, creating, sweep,
                       task_app, celery_db, prepIn, prepOut, response, xmlIn, xmlOut, stored, logVars>>

\* the pool process running the task is lost (killed by the system); with
\* task_acks_late and task_reject_on_worker_lost (lines 47-48) the message
\* goes back to the queue and is delivered again
WorkerLost ==
    \E r \in runs :
        /\ \E job \in queue : job.task = r.task /\ job.deliveries < MaxDeliveries
        /\ runs' = runs \ {r}
        /\ procs' = Reaped(r)
        /\ UNCHANGED <<scans, queue, revoked, nextTask, clock, creating, sweep,
                       task_app, celery_db, prepIn, prepOut, response, xmlIn, xmlOut, stored, logVars>>

\* a worker that knows the revocation drops the message on receipt
Discard ==
    \E job \in queue :
        /\ job.task \in revoked
        /\ \A r \in runs : r.task # job.task
        /\ queue' = queue \ {job}
        /\ UNCHANGED <<scans, revoked, runs, procs, nextTask, clock, creating,
                       sweep, task_app, celery_db, prepIn, prepOut, response, xmlIn, xmlOut, stored, logVars>>

\* a tool process whose pool process is gone exits
ProcExit ==
    \E p \in procs :
        /\ p.alive
        /\ \A r \in runs : ~(r.task = p.task /\ r.delivery = p.delivery)
        /\ procs' = procs \ {p}
        /\ UNCHANGED <<scans, queue, revoked, runs, nextTask, clock, creating,
                       sweep, task_app, celery_db, prepIn, prepOut, response, xmlIn, xmlOut, stored, logVars>>

(***************************************************************************)
(* The periodic sweep: retry_failed_scans_task (worker.py)                 *)
(***************************************************************************)

\* the rows the query of lines 289-292 returns
FailedScans == {i \in DOMAIN scans : scans[i].status = FAILED}

\* the position of scan i among the failed scans, in id order
RankIn(S, i) == Cardinality({j \in S : j < i})

\* retry_failed_scans_task, lines 285-304: every failed row gets a new job,
\* published at once with the arguments stored on the row; the changes to
\* the rows wait in the session
RetryEnqueue ==
    /\ celery_db
    /\ sweep = {}
    /\ FailedScans # {}
    /\ nextTask + Cardinality(FailedScans) - 1 <= MaxTasks
    /\ queue' = queue \cup
           {Job(nextTask + RankIn(FailedScans, i), i, scans[i].target,
                scans[i].scan_type, scans[i].scan_args) : i \in FailedScans}
    /\ sweep' = {[scan_id |-> i, task |-> nextTask + RankIn(FailedScans, i)] :
                    i \in FailedScans}
    /\ nextTask' = nextTask + Cardinality(FailedScans)
    /\ UNCHANGED <<scans, revoked, runs, procs, clock, creating, task_app,
                   celery_db, prepIn, prepOut, response, xmlIn, xmlOut, stored, logVars>>

\* retry_failed_scans_task, line 306: the one commit writes task_id, status
\* and error_message of every row the loop touched
RetryCommit ==
    /\ sweep # {}
    /\ scans' = [i \in DOMAIN scans |->
                    IF \E s \in sweep : s.scan_id = i
                    THEN [scans[i] EXCEPT
                            !.task_id = (CHOOSE s \in sweep : s.scan_id = i).task,
                            !.status = QUEUED,
                            !.error_message = None]
                    ELSE scans[i]]
    /\ sweep' = {}
    /\ UNCHANGED <<queue, revoked, runs, procs, nextTask, clock, creating,
                   task_app, celery_db, prepIn, prepOut, response, xmlIn, xmlOut, stored, logVars>>

(***************************************************************************)
(* The environment                                                         *)
(***************************************************************************)

\* DatabaseTask.db, lines 57-73, read for the first time in the worker
\* process: the Flask application is built and stored in _app.  Nothing in
\* execute_scan_task reads it before line 106.
ReadDb ==
    /\ ~task_app
    /\ task_app' = TRUE
    /\ UNCHANGED <<scans, queue, revoked, runs, procs, nextTask, clock,
                   creating, sweep, celery_db, prepIn, prepOut, response, xmlIn, xmlOut, stored, logVars>>

\* the deployment gives celery_app the db attribute that lines 244 and 285
\* read; worker.py never assigns it
AttachCeleryDb ==
    /\ ~celery_db
    /\ celery_db' = TRUE
    /\ UNCHANGED <<scans, queue, revoked, runs, procs, nextTask, clock,
                   creating, sweep, task_app, prepIn, prepOut, response, xmlIn, xmlOut, stored, logVars>>

\* time passes
Tick ==
    /\ clock < MaxClock
    /\ clock' = clock + 1
    /\ UNCHANGED <<scans, queue, revoked, runs, procs, nextTask, creating,
                   sweep, task_app, celery_db, prepIn, prepOut, response, xmlIn, xmlOut, stored, logVars>>

(***************************************************************************)
(* The system                                                              *)
(***************************************************************************)

Init ==
    /\ LifecycleInit
    /\ prepIn = NoRequest
    /\ prepOut = NotCalled
    /\ xmlIn = NoDocument
    /\ xmlOut = NotParsed
    /\ stored = NotStored

Next ==
    \/ CreateScan
    \/ CreateEnqueue
    \/ CreateEnqueueFails
    \/ CreateSetTaskId
    \/ Cancel
    \/ TaskRaises
    \/ WorkerBegin
    \/ WorkerSetTaskId
    \/ WorkerFault
    \/ ScannerInit
    \/ Prepare
    \/ ExecSpawn
    \/ ExecExit
    \/ WorkerFinish
    \/ Terminate
    \/ WorkerLost
    \/ Discard
    \/ ProcExit
    \/ RetryEnqueue
    \/ RetryCommit
    \/ ReadDb
    \/ AttachCeleryDb
    \/ Tick

Spec == Init /\ [][Next]_vars

(***************************************************************************)
(* Two scans side by side: the service without the periodic sweep and     *)
(* without the loss of a pool process, the clock standing still.          *)
(***************************************************************************)

MaxScansTwo == 2     \* records created when scans run side by side

\* a quick scan of a private host and a scan of loopback, which the
\* validator rejects
TwoRequests == {req \in LifecycleRequests : req.custom_args = NoneStr}

TwoCreateScan == Submit(TwoRequests, MaxScansTwo)

TwoCancel == CancelAmong(MaxScansTwo)

TwoNext ==
    \/ TwoCreateScan
    \/ CreateEnqueue
    \/ CreateEnqueueFails
    \/ CreateSetTaskId
    \/ TwoCancel
    \/ TaskRaises
    \/ WorkerBegin
    \/ WorkerSetTaskId
    \/ WorkerFault
    \/ ScannerInit
    \/ Prepare
    \/ ExecSpawn
    \/ ExecExit
    \/ WorkerFinish
    \/ Terminate
    \/ Discard
    \/ ProcExit
    \/ ReadDb

TwoSpec == Init /\ [][TwoNext]_vars

\* a step of the task a pool process is executing, or the start of one
WorkerStep ==
    \/ WorkerBegin
    \/ WorkerSetTaskId
    \/ ScannerInit
    \/ Prepare
    \/ ExecSpawn
    \/ ExecExit
    \/ WorkerFinish

\* the worker acts on a revocation it has received
RevocationStep == Terminate \/ Discard

\* a request handler or the sweep goes on to its next statement
HandlerStep == CreateEnqueue \/ CreateSetTaskId \/ RetryCommit

\* the worker pool, the broker and the request handlers keep running: a
\* step that stays possible is eventually taken.  Faults (WorkerFault,
\* WorkerLost, a failing apply_async), client requests and the start of
\* the sweep are not forced.
Fairness ==
    /\ WF_vars(WorkerStep)
    /\ WF_vars(RevocationStep)
    /\ WF_vars(HandlerStep)

SpecFair == Init /\ [][Next]_vars /\ Fairness

\* the broker hands a pending message to a worker: the task starts, or it
\* raises at line 106 on a task object without _app
Delivery == WorkerBegin \/ TaskRaises

\* as Fairness, and every message that stays pending is delivered
FairDelivery ==
    /\ Fairness
    /\ WF_vars(Delivery)

SpecDelivered == Init /\ [][Next]_vars /\ FairDelivery

(***************************************************************************)
(* Properties                                                              *)
(***************************************************************************)

\* the shell metacharacters of the specification's denylist
Metacharacters == {Backquote, "$", ";", "&", "|", "<", ">"}

HasMetacharacter(s) == \E i \in 1..Len(s) : s[i] \in Metacharacters

ForbiddenPatternErrors ==
    {"Forbidden argument pattern detected: " \o forbidden_patterns(<<>>)[i].pattern :
        i \in 1..Len(forbidden_patterns(<<>>))}

\* C8: a custom-profile call whose argument text holds a shell
\* metacharacter is rejected, returns no command and never reaches command
\* assembly; when target and profile pass, the rejection is the
\* sanitiser's forbidden-pattern error.
C8_MetacharacterRejected ==
    (prepOut.called /\ prepIn.scan_type = "custom"
        /\ HasMetacharacter(prepIn.custom_args))
    => /\ ~prepOut.valid
       /\ prepOut.command = NoCommand
       /\ \A i \in 1..Len(prepOut.calls) : prepOut.calls[i] # "assemble"
       /\ validate_target(prepIn.target).valid
            => /\ prepOut.error \in ForbiddenPatternErrors
               /\ prepOut.calls[Len(prepOut.calls)] = "sanitize_custom_args"

\* C8 witness: the sanitiser has rejected a metacharacter text of a
\* request whose target is valid
C8_Witness ==
    /\ prepOut.called
    /\ prepIn.scan_type = "custom"
    /\ HasMetacharacter(prepIn.custom_args)
    /\ validate_target(prepIn.target).valid
    /\ prepOut.error = "Forbidden argument pattern detected: [;&|<>]"

\* a token that selects an output mode of the tool: -oN, -oX, -oG, -oA, -oS,
\* alone or with the file name attached
IsOutputFlag(tok) ==
    /\ Len(tok) >= 3
    /\ tok[1] = "-"
    /\ tok[2] = "o"
    /\ tok[3] \in {"N", "X", "G", "A", "S"}

\* C9: in the command of an accepted custom-argument text the only
\* output-mode flag is the forced -oX of the last three tokens.
C9_OnlyForcedOutputFlag ==
    (prepOut.called /\ prepOut.valid /\ prepIn.scan_type = "custom"
        /\ Truthy(prepIn.custom_args))
    => \A i \in 1..Len(prepOut.command) :
           IsOutputFlag(prepOut.command[i]) => i = Len(prepOut.command) - 2

\* the ranges the specification names, in both address families
SpecialRanges ==
    {FORBIDDEN_RANGES[i].net : i \in 1..Len(FORBIDDEN_RANGES)}
    \cup {ip_network(<<":", ":", "1", "/", "1", "2", "8">>), ip_network(<<"f", "e", "8", "0", ":", ":", "/", "1", "0">>), ip_network(<<"f", "f", "0", "0", ":", ":", "/", "8">>)}

ForbiddenRangeErrors ==
    {"overlaps forbidden range " \o FORBIDDEN_RANGES[i].name : i \in 1..Len(FORBIDDEN_RANGES)}

\* C10: every well-formed target that overlaps a loopback, link-local,
\* multicast or reserved range is rejected as a forbidden range, whatever
\* the profile and the size of the range.
C10_ForbiddenRangeRejected ==
    (prepOut.called /\ ip_network(Strip(prepIn.target)).ok
        /\ \E r \in SpecialRanges : overlaps(ip_network(Strip(prepIn.target)), r))
    => /\ ~prepOut.valid
       /\ prepOut.error \in ForbiddenRangeErrors


\* C1: in every reachable state a record has completed_at set exactly when
\* its status is completed, failed or cancelled.
C1_CompletedAtIffTerminal ==
    \A i \in DOMAIN scans :
        (scans[i].status \in Terminal) <=> (scans[i].completed_at # NoTime)

\* C2: no step changes the status of a completed or cancelled record, and a
\* failed record only stays failed or goes back to queued.
C2_TerminalIsFinal ==
    [][\A i \in DOMAIN scans :
          /\ scans[i].status \in {COMPLETED, CANCELLED}
                => scans'[i].status = scans[i].status
          /\ scans[i].status = FAILED
                => scans'[i].status \in {FAILED, QUEUED}]_vars

\* C3: no record is cancelled while a tool process started for it is alive.
C3_NoCancelledWhileProcessAlive ==
    \A i \in DOMAIN scans :
        scans[i].status = CANCELLED
            => ~\E p \in procs : p.scan_id = i /\ p.alive

\* C4: the step that cancels a queued scan leaves no job of that scan in
\* the queue that a worker would still execute (every remaining message of
\* the scan is revoked), and no submission that will still publish one.
C4_CancelQueuedRemovesJob ==
    [][\A i \in DOMAIN scans :
          (scans[i].status = QUEUED /\ scans'[i].status = CANCELLED)
              => /\ \A j \in queue' : j.scan_id = i => j.task \in revoked'
                 /\ \A c \in creating' : c.scan_id = i => c.task # NoTask]_vars

\* C5: a record that is running is eventually completed, failed or
\* cancelled.
C5_RunningReachesTerminal ==
    \A i \in 1..MaxScans :
        (i \in DOMAIN scans /\ scans[i].status = RUNNING)
            ~> (i \in DOMAIN scans /\ scans[i].status \in Terminal)

\* C6 as stated: a run has spawned no process unless target validation,
\* profile validation and sanitisation have all succeeded for it.
C6_NoProcessBeforeValidation ==
    \A r \in runs :
        ProcsOf(r) # {} => (r.prep.called /\ r.prep.valid)

\* C6: within a run the stages follow one another and the only process
\* spawned before validation and sanitisation have succeeded is the
\* version probe of the scanner's constructor, which has exited by then;
\* the tool is started with the assembled command only after they
\* succeeded, and a run whose request was rejected has spawned the probe
\* and nothing else.
C6_OnlyProbeBeforeValidation ==
    \A r \in runs :
        /\ \A p \in ProcsOf(r) :
              \/ p.command = VersionCommand /\ ~p.alive
              \/ /\ r.prep.called /\ r.prep.valid
                 /\ r.pc \in {"wait", "finish"}
                 /\ p.command = r.prep.command
        /\ r.pc \in {"exec", "wait"} => (r.prep.called /\ r.prep.valid)
        /\ r.prep.called => \E p \in ProcsOf(r) : p.command = VersionCommand
        /\ (r.prep.called /\ ~r.prep.valid)
              => /\ r.pc = "finish"
                 /\ ~r.result.success
                 /\ r.result.error = r.prep.error

\* C6 witness: a run whose request was rejected, with the probe as its
\* only process
C6_Witness ==
    \E r \in runs :
        /\ r.prep.called
        /\ ~r.prep.valid
        /\ \E p \in ProcsOf(r) : p.command = VersionCommand
        /\ \A p \in ProcsOf(r) : p.command = VersionCommand

\* a run of a custom-profile request whose arguments hold a metacharacter
MetacharRun(r) == r.scan_type = "custom" /\ HasMetacharacter(r.custom_args)

\* C7: a run of a custom-profile scan whose arguments hold a shell
\* metacharacter never reaches execute_scan and starts no tool process; its
\* request is rejected with the forbidden-pattern error of the operator
\* rule, and when the task writes its result the record becomes failed with
\* that error.
C7_MetacharScanFailsUnexecuted ==
    /\ [](\A r \in runs : MetacharRun(r) =>
            /\ r.pc \notin {"exec", "wait"}
            /\ \A p \in ProcsOf(r) : p.command = VersionCommand
            /\ r.prep.called =>
                  /\ ~r.prep.valid
                  /\ r.prep.error = "Forbidden argument pattern detected: [;&|<>]"
                  /\ r.pc = "finish"
            /\ r.pc = "finish" => ~r.result.success)
    /\ [][\A r \in runs :
            (MetacharRun(r) /\ r.pc = "finish" /\ r \notin runs'
                /\ scans'[r.scan_id] # scans[r.scan_id])
            => /\ scans'[r.scan_id].status = FAILED
               /\ scans'[r.scan_id].error_message = r.result.error
               /\ scans'[r.scan_id].raw_output = scans[r.scan_id].raw_output]_vars

\* C7 witness: the record of the metacharacter scan is failed with the
\* sanitiser's error
C7_Witness ==
    \E i \in DOMAIN scans :
        /\ scans[i].scan_type = "custom"
        /\ scans[i].status = FAILED
        /\ scans[i].error_message = "Forbidden argument pattern detected: [;&|<>]"
        /\ procs = {}


\* the number of host bits of a network: it holds 2^AddressBits addresses
AddressBits(net) == Len(net.bits) - net.prefixlen

\* the ceilings as powers of two: 256 = 2^8 (IPv4), 65536 = 2^16 (IPv6)
CeilingBits(version) == IF version = 4 THEN 8 ELSE 16

C12_CommandForm ==
    (prepOut.called /\ prepOut.valid)
    => /\ Len(prepOut.command) >= 4
       /\ prepOut.command[1] = nmap_path
       /\ prepOut.command[Len(prepOut.command) - 2] = LitOX
       /\ prepOut.command[Len(prepOut.command) - 1] = <<"-">>
       /\ prepOut.command[Len(prepOut.command)] = prepIn.target
       /\ \A i \in 2..(Len(prepOut.command) - 3) :
              prepOut.command[i] # <<>>

\* C12 witness: a command built from accepted custom arguments
C12_Witness ==
    /\ prepOut.called
    /\ prepOut.valid
    /\ prepIn.scan_type = "custom"
    /\ prepIn.custom_args = <<"-", "T", "4", " ">>
    /\ prepOut.command = <<nmap_path, <<"-", "T", "4">>, LitOX, <<"-">>, prepIn.target>>

\* the profile names of the specification
ProfileNames == {"default", "quick", "full", "stealth", "os", "vuln", "custom"}

\* the tokens of a command between the tool path and the forced output mode
CommandArgs(command) == SubSeq(command, 2, Len(command) - 3)

\* C13: a request whose profile name is not one of the seven is rejected
\* and returns no command, with the unknown-profile error when its target
\* passes; a request with a profile of the table gets exactly the argument
\* list of the table.
C13_ProfileTable ==
    prepOut.called
    => /\ prepIn.scan_type \notin ProfileNames
            => /\ ~prepOut.valid
               /\ prepOut.command = NoCommand
               /\ validate_target(prepIn.target).valid
                    => /\ prepOut.error = "Invalid scan type"
                       /\ prepOut.calls = <<"validate_target", "validate_scan_type">>
       /\ (prepIn.scan_type \in ProfileNames \ {"custom"}
              /\ validate_target(prepIn.target).valid)
            => /\ prepOut.valid
               /\ CommandArgs(prepOut.command) = SCAN_PROFILES[prepIn.scan_type]

\* C13 witness: an unknown profile name has been rejected for a valid target
C13_Witness ==
    /\ prepOut.called
    /\ prepIn.scan_type = "bogus"
    /\ validate_target(prepIn.target).valid
    /\ prepOut.error = "Invalid scan type"
    /\ prepOut.command = NoCommand

\* the jobs a step publishes for scan i
NewJobs(i) == {j \in queue' : j \notin queue /\ j.scan_id = i}

C16_StartedAtSetOnce ==
    /\ [](\A i \in DOMAIN scans :
             scans[i].status = RUNNING => scans[i].started_at # NoTime)
    /\ [][\A i \in DOMAIN scans :
             /\ scans[i].started_at # NoTime
                   => scans'[i].started_at = scans[i].started_at
             /\ scans'[i].started_at # scans[i].started_at
                   => /\ scans'[i].status = RUNNING
                      /\ scans'[i].started_at = clock]_vars

\* C16 witness: a second delivery of the job has re-entered running at a
\* later instant and started_at still holds the first one
C16_Witness ==
    \E r \in runs :
        /\ r.delivery = 2
        /\ scans[r.scan_id].status = RUNNING
        /\ scans[r.scan_id].started_at = 1
        /\ clock = 2

\* the error messages of the validator
ValidationErrors ==
    ForbiddenPatternErrors \cup ForbiddenRangeErrors
    \cup {"Invalid IP/CIDR format", "Network too large", "Invalid scan type"}

UnparsableRun(r) ==
    /\ r.pc = "finish"
    /\ r.result.success
    /\ r.result.parsed_results = "{error}"

\* C18: when the task of a run whose tool output did not parse writes the
\* record, the record is failed with an error message and holds the raw
\* output.
C18_UnparsableOutputFails ==
    [][\A r \in runs :
          (UnparsableRun(r) /\ r \notin runs'
              /\ scans'[r.scan_id] # scans[r.scan_id])
          => /\ scans'[r.scan_id].status = FAILED
             /\ scans'[r.scan_id].error_message \notin {None, ""}
             /\ scans'[r.scan_id].raw_output = r.result.raw_output]_vars

\* the errors of execution: the tool exited with a nonzero status, was
\* killed at the timeout, or its binary is not there
ExecutionErrors ==
    {"Nmap scan failed", "Scan timeout after 300 seconds", "Nmap initialization failed"}

\* a run that ended with an execution error
ExecutionErrorRun(r) ==
    /\ r.pc = "finish"
    /\ ~r.result.success
    /\ r.result.error \in ExecutionErrors

\* C19: when the task of a run that ended with an execution error writes
\* the record, the record is failed (not completed), carries the error as
\* its non-empty message and has completed_at set to the instant of the
\* write.
C19_ExecutionErrorFails ==
    [][\A r \in runs :
          (ExecutionErrorRun(r) /\ r \notin runs'
              /\ scans'[r.scan_id] # scans[r.scan_id])
          => /\ scans'[r.scan_id].status = FAILED
             /\ scans'[r.scan_id].error_message = r.result.error
             /\ scans'[r.scan_id].error_message \notin {None, ""}
             /\ scans'[r.scan_id].completed_at = clock
             /\ scans'[r.scan_id].completed_at # NoTime]_vars

\* C19 witness: a record failed by the timeout of the tool
C19_Witness ==
    \E i \in DOMAIN scans :
        /\ scans[i].status = FAILED
        /\ scans[i].error_message = "Scan timeout after 300 seconds"
        /\ scans[i].completed_at # NoTime
        /\ \A r \in runs : r.scan_id # i

\* the run has come to the end of run_nmap_scan
Returning(r) == r.pc = "finish"

\* C20, as stated: a run that returns has created exactly one external
\* process, and it has exited.
C20_ExactlyOneProcess ==
    \A r \in runs :
        Returning(r) => /\ Cardinality(ProcsOf(r)) = 1
                        /\ \A p \in ProcsOf(r) : ~p.alive

\* C20, amended: a run never has two processes alive at once; when it
\* returns every process it created has exited, and it has created at most
\* the version probe of the constructor and, if and only if the request
\* passed validation, one process running the scan command.
C20_ProbeThenAtMostOneScan ==
    \A r \in runs :
        /\ Cardinality({p \in ProcsOf(r) : p.alive}) <= 1
        /\ Returning(r)
              => /\ \A p \in ProcsOf(r) : ~p.alive
                 /\ \A p \in ProcsOf(r) :
                        p.command = VersionCommand \/ p.command = r.prep.command
                 /\ Cardinality(ProcsOf(r)) <= 2
                 /\ (\E p \in ProcsOf(r) : p.command # VersionCommand)
                        <=> (r.prep.called /\ r.prep.valid)
                 /\ r.prep.called
                        => \E p \in ProcsOf(r) : p.command = VersionCommand

\* C20 witness: a run returns after the probe and the scan have both run
\* and exited
C20_Witness ==
    \E r \in runs :
        /\ Returning(r)
        /\ r.result.success
        /\ Cardinality(ProcsOf(r)) = 2
        /\ \A p \in ProcsOf(r) : ~p.alive

\* the columns a status query shows of the outcome of a run
Outcome(row) == <<row.status, row.completed_at, row.raw_output, row.parsed_results>>

\* C21: every committed row with status completed has completed_at,
\* raw_output and parsed_results set, and every commit that leaves a row
\* completed with a changed status, completion time or output wrote all of
\* them in that one commit, from the result of one run that succeeded.
C21_CompletedIsUntorn ==
    /\ [](\A i \in DOMAIN scans :
             scans[i].status = COMPLETED
             => /\ scans[i].completed_at # NoTime
                /\ scans[i].raw_output # None
                /\ scans[i].parsed_results # None)
    /\ [][\A i \in DOMAIN scans :
             (scans'[i].status = COMPLETED /\ Outcome(scans'[i]) # Outcome(scans[i]))
             => \E r \in runs :
                    /\ r \notin runs'
                    /\ r.scan_id = i
                    /\ r.result.success
                    /\ scans'[i].raw_output = r.result.raw_output
                    /\ scans'[i].parsed_results = r.result.parsed_results
                    /\ scans'[i].completed_at = clock]_vars

\* C21 witness: a record is completed by a run that went on after a cancel
\* request had been answered, with completion time and output set
C21_Witness ==
    \E i \in DOMAIN scans :
        /\ scans[i].status = COMPLETED
        /\ scans[i].raw_output = "<nmaprun>"
        /\ scans[i].parsed_results = "{hosts, stats}"
        /\ scans[i].completed_at = 2
        /\ response.answer = "200 Scan cancelled successfully"

\* C22: a row whose duration_seconds is set has started_at and
\* completed_at set, and duration_seconds is their difference.
C22_DurationIsDifference ==
    \A i \in DOMAIN scans :
        scans[i].duration_seconds # NoDuration
        => /\ scans[i].started_at # NoTime
           /\ scans[i].completed_at # NoTime
           /\ scans[i].duration_seconds = scans[i].completed_at - scans[i].started_at

\* C22 witness: a record that took one instant to run, from its start to
\* its completion, the tool itself having taken none
C22_Witness ==
    \E i \in DOMAIN scans :
        /\ scans[i].status = COMPLETED
        /\ scans[i].started_at = 1
        /\ scans[i].completed_at = 2
        /\ scans[i].duration_seconds = 1

\* the entries of the parsed hosts list with a given status
HostsWithStatus(result, status) ==
    {i \in 1..Len(result.hosts) : result.hosts[i].status = status}

\* the port entries of a parsed result, over all its hosts
PortEntries(result) ==
    UNION {{<<i, j>> : j \in 1..Len(result.hosts[i].ports)} : i \in 1..Len(result.hosts)}

\* a document as the tool writes it: every host has a status element and
\* every port a numeric portid
ToolDocument(document) ==
    /\ document.wellformed
    /\ \A i \in 1..Len(document.hosts) :
           /\ document.hosts[i].status # None
           /\ \A j \in 1..Len(document.hosts[i].ports) :
                  IsDigits(document.hosts[i].ports[j].portid)

\* C23: the stats of a parsed tool document count its hosts: hosts_up
\* those with status up, hosts_down those with status down, total_hosts
\* all of them, total_ports their port entries.
C23_StatsCountHosts ==
    (xmlOut.called /\ ToolDocument(xmlIn))
    => /\ ~xmlOut.error
       /\ xmlOut.stats.hosts_up = Cardinality(HostsWithStatus(xmlOut, "up"))
       /\ xmlOut.stats.hosts_down = Cardinality(HostsWithStatus(xmlOut, "down"))
       /\ xmlOut.stats.total_hosts = Len(xmlOut.hosts)
       /\ xmlOut.stats.total_ports = Cardinality(PortEntries(xmlOut))

\* the host elements of a document that carry the status element every
\* host of the tool's output has
WellFormedHosts(document) == SelectSeq(document.hosts, LAMBDA h : h.status # None)

\* the port elements of a host whose portid is a number
WellFormedPorts(host_element) == SelectSeq(host_element.ports, LAMBDA p : int_of(p.portid).ok)

\* C24: parsing skips a malformed host and a malformed port and nothing
\* else: the parse does not abort, hosts holds exactly the well-formed
\* hosts in document order, only they are counted up or down, and each
\* keeps exactly its well-formed ports.
C24_MalformedEntriesSkipped ==
    (xmlOut.called /\ xmlIn.wellformed)
    => /\ ~xmlOut.error
       /\ Len(xmlOut.hosts) = Len(WellFormedHosts(xmlIn))
       /\ xmlOut.stats.hosts_up + xmlOut.stats.hosts_down = Len(WellFormedHosts(xmlIn))
       /\ \A i \in 1..Len(xmlOut.hosts) :
             i <= Len(WellFormedHosts(xmlIn))
             => /\ xmlOut.hosts[i].status = WellFormedHosts(xmlIn)[i].status
                /\ Len(xmlOut.hosts[i].ports) = Len(WellFormedPorts(WellFormedHosts(xmlIn)[i]))

\* C30: every port entry of a parsed result has a port number between 1
\* and 65535.
C30_PortNumberInRange ==
    xmlOut.called
    => \A e \in PortEntries(xmlOut) :
          xmlOut.hosts[e[1]].ports[e[2]].portid \in 1..65535

\* the command-injection patterns: ; && || | backquote $( and ../
InjectionPatterns == {<<";">>, <<"&", "&">>, <<"|", "|">>, <<"|">>, <<Backquote>>, <<"$", "(">>, <<".", ".", "/">>, <<".", ".", "\\">>}

HasInjectionPattern(target) == \E p \in InjectionPatterns : SearchLiteral(p, target)

\* C27: a target containing a command-injection pattern is rejected by
\* target validation as malformed, and no command is assembled for it.
C27_InjectionTargetRejected ==
    (prepOut.called /\ HasInjectionPattern(prepIn.target))
    => /\ ~prepOut.valid
       /\ prepOut.error = "Invalid IP/CIDR format"
       /\ prepOut.command = NoCommand
       /\ prepOut.calls = <<"validate_target">>

\* the profiles of the table other than custom
NamedProfiles == ProfileNames \ {"custom"}

\* C28: for a named profile the answer does not depend on the custom
\* arguments: a request differing only in them gets the same verdict and
\* the same command.
C28_CustomArgsIgnoredForNamedProfiles ==
    (prepOut.called /\ prepIn.scan_type \in NamedProfiles)
    => \A other \in ArgTextsSmall :
          LET answer == validate_and_prepare_scan(prepIn.target, prepIn.scan_type, other)
          IN  /\ answer.valid = prepOut.valid
              /\ answer.error = prepOut.error
              /\ answer.command = prepOut.command

C28_Witness ==
    /\ prepOut.called
    /\ prepOut.valid
    /\ prepIn.scan_type = "full"
    /\ prepIn.custom_args = <<"-", "o", "N", " ", "o", "u", "t">>
    /\ \A i \in 1..Len(prepOut.command) : prepOut.command[i] # <<"-", "o", "N">>

\* C29: a submission inserts exactly one record, queued, and nothing else;
\* its enqueue step then either publishes exactly one job, for that record
\* and with the arguments of the request, or, when publishing fails, leaves
\* the record failed with an error message and publishes nothing.
C29_SubmitOneRecordOneJob ==
    [][/\ Len(scans') # Len(scans)
            => /\ Len(scans') = Len(scans) + 1
               /\ scans'[Len(scans')].status = QUEUED
               /\ \A i \in DOMAIN scans : scans'[i] = scans[i]
               /\ queue' = queue
               /\ \E c \in creating' \ creating :
                     c.scan_id = Len(scans') /\ c.task = NoTask
       /\ \A c \in creating' \ creating :
             c.task = NoTask => (Len(scans') = Len(scans) + 1 /\ c.scan_id = Len(scans'))
       /\ \A c \in creating :
             (c.task = NoTask /\ c \notin creating')
             => \/ /\ Cardinality(queue' \ queue) = 1
                   /\ \E j \in NewJobs(c.scan_id) :
                         /\ j.target = c.req.target
                         /\ j.scan_type = c.req.scan_type
                         /\ j.custom_args = c.req.custom_args
                         /\ [c EXCEPT !.task = j.task] \in creating'
                   /\ scans' = scans
                \/ /\ queue' = queue
                   /\ scans'[c.scan_id].status = FAILED
                   /\ scans'[c.scan_id].error_message # None
                   /\ \A c2 \in creating' : c2.scan_id # c.scan_id]_vars

C29_Witness ==
    /\ Len(scans) = 1
    /\ scans[1].status = FAILED
    /\ scans[1].error_message = "broker unavailable"
    /\ scans[1].task_id = NoTask
    /\ creating = {}
    /\ queue = {}
    /\ nextTask = 1

\* C25: the id a submission receives belongs to no record that existed
\* before it and to no other submission in progress, and it is the id of
\* the record inserted for this request.
C25_DistinctScanIds ==
    [][\A c \in creating' \ creating :
          c.task = NoTask
          => /\ c.scan_id \notin DOMAIN scans
             /\ \A d \in creating : d.scan_id # c.scan_id
             /\ \A j \in queue : j.scan_id # c.scan_id
             /\ c.scan_id \in DOMAIN scans'
             /\ scans'[c.scan_id].target = c.req.target
             /\ scans'[c.scan_id].scan_type = c.req.scan_type]_vars

\* two submissions in progress at once, each holding its own id
C25_Witness ==
    /\ Len(scans) = 2
    /\ \E c1, c2 \in creating :
          /\ c1.scan_id = 1 /\ c1.task = NoTask
          /\ c2.scan_id = 2 /\ c2.task = NoTask

\* the step is taken for scan i: by its submission, by a cancel_scan
\* request for it, or by a task started for it
StepOf(i) ==
    \/ \E c \in creating : c.scan_id = i /\ c \notin creating'
    \/ /\ response' = Response("cancel_scan", i, "200 Scan cancelled successfully")
       /\ UNCHANGED <<creating, queue, runs>>
    \/ \E job \in queue : job.scan_id = i /\ job \notin queue'
    \/ \E r \in runs : r.scan_id = i /\ r \notin runs'

\* C26: a step changes the record of at most one scan, and only a step
\* taken for that scan (its submission, a cancel request for it, a task
\* executing it) changes it; inserting a record changes no other.
C26_ScansIndependent ==
    [][\A i \in DOMAIN scans :
          scans'[i] # scans[i]
          => /\ \A j \in DOMAIN scans : j # i => scans'[j] = scans[j]
             /\ StepOf(i)]_vars

\* one scan timed out and failed while the other, on the same target,
\* completed
C26_Witness ==
    /\ Len(scans) = 2
    /\ scans[1].status = FAILED
    /\ scans[1].error_message = "Scan timeout after 300 seconds"
    /\ scans[2].status = COMPLETED
    /\ scans[2].target = scans[1].target
    /\ scans[2].error_message = None

\* C38: an accepted custom-profile request without custom arguments
\* (absent or empty) gets the command of the default profile, -T4 -Pn,
\* then -oX - and the target, and sanitize_custom_args is not called.
C38_CustomWithoutArgsIsDefault ==
    (prepOut.called /\ prepOut.valid /\ prepIn.scan_type = "custom"
        /\ ~Truthy(prepIn.custom_args))
    => /\ prepOut.command = <<nmap_path, <<"-", "T", "4">>, <<"-", "P", "n">>, <<"-", "o", "X">>, <<"-">>, prepIn.target>>
       /\ prepOut.calls = <<"validate_target", "validate_scan_type", "assemble">>

C38_Witness ==
    /\ prepOut.called
    /\ prepOut.valid
    /\ prepIn.scan_type = "custom"
    /\ prepIn.custom_args = <<>>
    /\ prepIn.target = <<"1", "9", "2", ".", "1", "6", "8", ".", "1", ".", "5">>
    /\ CommandArgs(prepOut.command) = SCAN_PROFILES["default"]

\* C39: the target token of an assembled command is the text target
\* validation parsed, the target without its surrounding whitespace.
C39_CommandTargetIsValidatedText ==
    (prepOut.called /\ prepOut.valid)
    => prepOut.command[Len(prepOut.command)] = Strip(prepIn.target)

C34_StoredCountsMatchStats ==
    (stored.assigned /\ ~xmlOut.error)
    => /\ stored.raw_output = xmlIn
       /\ stored.parsed_results.hosts = xmlOut.hosts
       /\ stored.parsed_results.stats = xmlOut.stats
       /\ stored.hosts_up = xmlOut.stats.hosts_up
       /\ stored.hosts_up = Cardinality(HostsWithStatus(xmlOut, "up"))
       /\ stored.ports_found = xmlOut.stats.total_ports
       /\ stored.ports_found = Cardinality(PortEntries(xmlOut))

\* a run stores a result of two hosts, one of them up, with two ports
C34_Witness ==
    /\ stored.assigned
    /\ ~xmlOut.error
    /\ Len(xmlOut.hosts) = 2
    /\ stored.hosts_up = 1
    /\ stored.ports_found = 2
    /\ Len(xmlOut.hosts[1].ports) = 2
    /\ stored.raw_output = xmlIn

\* the port entries of a result whose service has non-empty extrainfo
ExtraInfoEntries(result) ==
    {e \in PortEntries(result) :
        LET service == result.hosts[e[1]].ports[e[2]].service
        IN  service.present /\ service.extrainfo \notin {None, ""}}

\* C35: after a run has stored its result, vulnerabilities_found of a vuln
\* scan is the number of port entries of the result whose service carries
\* non-empty extrainfo, and that of any other scan is 0.
C35_VulnerabilitiesOnlyForVuln ==
    stored.assigned
    => stored.vulnerabilities_found =
          IF stored.scan_type = "vuln" THEN Cardinality(ExtraInfoEntries(xmlOut)) ELSE 0

\* a vuln run counts one of its two ports
C35_Witness ==
    /\ stored.assigned
    /\ stored.scan_type = "vuln"
    /\ Cardinality(PortEntries(xmlOut)) = 2
    /\ stored.vulnerabilities_found = 1
    /\ stored.hosts_up = 1

\* the message execute_scan_task stores when it catches the exception the
\* soft time limit raises in the task
SoftTimeLimitError == "Task execution error: SoftTimeLimitExceeded()"

\* C36: the step in which a run handles the soft time limit leaves the
\* status of its record as it was.
C36_SoftTimeoutKeepsStatus ==
    [][\A i \in DOMAIN scans :
          (scans[i].error_message # SoftTimeLimitError
              /\ scans'[i].error_message = SoftTimeLimitError)
          => scans'[i].status = scans[i].status]_vars

C32_EnqueuedReachesTerminal ==
    \A i \in 1..MaxScans :
        (i \in DOMAIN scans /\ \E job \in queue : job.scan_id = i)
            ~> (i \in DOMAIN scans /\ scans[i].status \in Terminal)

\* C40: the lines read_new_lines has returned are, in order and each once,
\* the first of the lines appended since the follower was opened.
C40_ReturnedFollowsAppended ==
    /\ Len(returned) <= Len(appended)
    /\ returned = SubSeq(appended, 1, Len(returned))
=============================================================================
